---- MODULE Spec2Model ----
(***************************************************************************)
(* A model of argocd-helm-template: the ArgocdApplication class            *)
(* (construction, source-shape classification, accessors, validate()),     *)
(* the reference mapper (build_ref_mapping,                                *)
(* apply_ref_mapping_to_value_files), compute_helm_args, the steps of      *)
(* render_manifests, and the chart fetch (download_chart,                  *)
(* extract_chart_info, checkout_git_revision).                             *)
(*                                                                         *)
(* Python values are encoded with uniform record types:                    *)
(*   - a string that the code inspects character by character (a ref name, *)
(*     a repoURL, a valueFiles entry) is a sequence of one-character       *)
(*     strings, so "$v/a" is <<"$","v","/","a">>;                          *)
(*   - a mapping is a record with a `keys` field (the keys present) and    *)
(*     one field per key (read only when the key is present);              *)
(*   - a value whose type the code tests carries a type tag `t`.           *)
(***************************************************************************)
EXTENDS Naturals, Sequences, FiniteSets

VARIABLES
    pc,      \* position of the client: "start", "app", "failed", "source",
             \* "classified", "mapper", "built", "applied", "chart"
    doc,     \* the document handed to ArgocdApplication(...)
    data,    \* ArgocdApplication._data
    exc,     \* the exception raised by the constructor ("none" when it returned)
    op,      \* the last method called on the Application
    vres,    \* outcome of the last validate() call
    refs,    \* value returned by the last get_all_ref_sources() call
    bres,    \* outcome of the last compute_helm_args(app, workdir, override) call
    src,     \* a Source handed to the per-source predicates
    shape,   \* the answers of _is_helm_repo/_is_helm_oci/_is_helm_git/_is_ref
    ret,     \* value returned by the last accessor call (op names the accessor)
    margs,   \* arguments handed to the ref_mapper functions
    mres,    \* outcome of the last ref_mapper call
    hist,    \* what the client of an Application has seen of it so far
    run      \* the position and effects of a render_manifests or download_chart run

vars == <<pc, doc, data, exc, op, vres, refs, bres, src, shape, ret, margs, mres,
          hist, run>>

(***************************************************************************)
(* Bounds of the model.                                                    *)
(***************************************************************************)
\* every `spec.sources` sequence up to this length is a document
MaxSources == 2
\* every `helm.valueFiles` sequence up to this length is a helm section
MaxValueFiles == 1
\* longest value_files list handed to apply_ref_mapping_to_value_files
MaxResolved == 2

(***************************************************************************)
(* Strings.                                                                *)
(***************************************************************************)
\* the characters used, in code-point order ('$' < '/' < ':' < letters)
Alphabet == <<"$", "/", ":", "a", "b", "e", "h", "o", "p", "s", "t", "v">>

CharOrd(c) == CHOOSE i \in 1..Len(Alphabet) : Alphabet[i] = c

\* str.startswith(prefix)
StartsWith(s, prefix) ==
    /\ Len(s) >= Len(prefix)
    /\ SubSeq(s, 1, Len(prefix)) = prefix

\* str.startswith((p1, p2)): true when one of the prefixes matches
StartsWithAny(s, prefixes) == \E p \in prefixes : StartsWith(s, p)

\* s.split("/", 1): one piece when s holds no "/", else the text before the
\* first "/" and the text after it
Split1(s) ==
    IF \A i \in 1..Len(s) : s[i] # "/"
    THEN <<s>>
    ELSE LET i == CHOOSE j \in 1..Len(s) :
                      s[j] = "/" /\ \A k \in 1..(j - 1) : s[k] # "/"
         IN  <<SubSeq(s, 1, i - 1), SubSeq(s, i + 1, Len(s))>>

\* s[1:]
Tail1(s) == IF Len(s) = 0 THEN <<>> ELSE Tail(s)

\* Python's order on str: lexicographic by code point
RECURSIVE StrLess(_, _)
StrLess(a, b) ==
    IF Len(b) = 0 THEN FALSE
    ELSE IF Len(a) = 0 THEN TRUE
    ELSE IF a[1] # b[1] THEN CharOrd(a[1]) < CharOrd(b[1])
    ELSE StrLess(Tail(a), Tail(b))

\* sorted(S) for a set S of strings
RECURSIVE Sorted(_)
Sorted(S) ==
    IF S = {} THEN <<>>
    ELSE LET m == CHOOSE a \in S : \A b \in S \ {a} : StrLess(a, b)
         IN  <<m>> \o Sorted(S \ {m})

\* bool(s) of a str: the empty string is falsy
Truthy(s) == Len(s) > 0

HttpPrefix == <<"h", "t", "t", "p", ":", "/", "/">>
HttpsPrefix == <<"h", "t", "t", "p", "s", ":", "/", "/">>

(***************************************************************************)
(* Sources.                                                                *)
(***************************************************************************)
SourceKeys == {"chart", "path", "ref", "helm", "repoURL"}

\* the `helm` section of a Source
NoHelm == [keys |-> {}, valueFiles |-> <<>>, skipCrds |-> FALSE, releaseName |-> ""]

MkHelm(keys, valueFiles, skipCrds, releaseName) ==
    [keys |-> keys,
     valueFiles |-> IF "valueFiles" \in keys THEN valueFiles ELSE <<>>,
     skipCrds |-> IF "skipCrds" \in keys THEN skipCrds ELSE FALSE,
     releaseName |-> IF "releaseName" \in keys THEN releaseName ELSE ""]

\* a Source mapping: the keys present, and the values of ref, repoURL, helm
MkSource(keys, ref, repoURL, helm) ==
    [keys |-> keys,
     ref |-> IF "ref" \in keys THEN ref ELSE <<>>,
     repoURL |-> IF "repoURL" \in keys THEN repoURL ELSE <<>>,
     helm |-> IF "helm" \in keys THEN helm ELSE NoHelm]

NoSource == MkSource({}, <<>>, <<>>, NoHelm)

\* `key in source`
Has(source, key) == key \in source.keys

\* source.get("repoURL", "")
GetRepoURL(source) == IF Has(source, "repoURL") THEN source.repoURL ELSE <<>>

(***************************************************************************)
(* Source-shape predicates.                                                *)
(***************************************************************************)
_is_helm_repo(source) ==
    /\ Has(source, "chart")
    /\ ~Has(source, "path")
    /\ ~Has(source, "ref")

\* mutant: the repoURL alone decides, without the Helm-repo shape
_is_helm_oci_by_url_only(source) ==
    ~StartsWithAny(GetRepoURL(source), {HttpPrefix, HttpsPrefix})

_is_helm_oci(source) ==
    IF ~_is_helm_repo(source) THEN FALSE
    ELSE ~StartsWithAny(GetRepoURL(source), {HttpPrefix, HttpsPrefix})

_is_helm_git(source) ==
    /\ Has(source, "path")
    /\ Has(source, "helm")
    /\ ~Has(source, "chart")
    /\ ~Has(source, "ref")

_is_ref(source) ==
    /\ Has(source, "ref")
    /\ ~Has(source, "chart")
    /\ ~Has(source, "path")
    /\ ~Has(source, "helm")

(***************************************************************************)
(* Documents.                                                              *)
(*   doc.t          : the Python type of the document                      *)
(*   doc.kind/name  : doc.get("kind", ""), metadata.name                   *)
(*   doc.spec.t     : "absent" when the document has no "spec" key, else   *)
(*                    the type of its value ("scalar": None, a number or a *)
(*                    bool, on which `in` raises TypeError)                *)
(*   doc.spec.mem   : the keys k for which `k in spec` is true             *)
(*   doc.spec.sources, doc.spec.source : the values under those keys, with *)
(*                    their type tag                                       *)
(***************************************************************************)
MkSourcesVal(t, items) == [t |-> t, items |-> IF t = "list" THEN items ELSE <<>>]
MkSourceVal(t, val) == [t |-> t, val |-> IF t = "dict" THEN val ELSE NoSource]

NoSourcesVal == MkSourcesVal("absent", <<>>)
NoSourceVal == MkSourceVal("absent", NoSource)

MkSpec(t, mem, sources, source) ==
    [t |-> t,
     mem |-> mem,
     sources |-> IF t = "dict" /\ "sources" \in mem THEN sources ELSE NoSourcesVal,
     source |-> IF t = "dict" /\ "source" \in mem THEN source ELSE NoSourceVal]

NoSpec == MkSpec("absent", {}, NoSourcesVal, NoSourceVal)

MkDoc(t, kind, name, spec) ==
    [t |-> t,
     kind |-> IF t = "dict" THEN kind ELSE "",
     name |-> IF t = "dict" THEN name ELSE "",
     spec |-> IF t = "dict" THEN spec ELSE NoSpec]

NoDoc == MkDoc("none", "", "", NoSpec)

(***************************************************************************)
(* ArgocdApplication.__init__ and _validate_structure.                     *)
(***************************************************************************)
NoExc == [type |-> "none", msg |-> ""]
Raise(type, msg) == [type |-> type, msg |-> msg]

\* the outcome of a constructor call: the exception raised and self._data
Outcome(e, d) == [exc |-> e, data |-> d]

\* mutant: the type of `sources` is not checked
_validate_structure_unchecked_sources(d) ==
    IF d.spec.t = "absent"
    THEN Outcome(Raise("ValueError", "missing 'spec' section"), d)
    ELSE IF d.spec.t = "scalar"
    THEN Outcome(Raise("TypeError", "argument is not iterable"), d)
    ELSE IF "sources" \notin d.spec.mem /\ "source" \notin d.spec.mem
    THEN Outcome(Raise("ValueError", "missing 'sources' or 'source' in spec"), d)
    ELSE IF d.spec.t # "dict"
    THEN Outcome(Raise("AttributeError", "object has no attribute 'get'"), d)
    ELSE IF "source" \in d.spec.mem /\ "sources" \notin d.spec.mem
    THEN IF d.spec.source.t = "dict"
         THEN Outcome(NoExc,
                      [d EXCEPT !.spec.mem = @ \cup {"sources"},
                                !.spec.sources =
                                    MkSourcesVal("list", <<d.spec.source.val>>)])
         ELSE Outcome(Raise("ValueError", "'source' must be a dict"), d)
    ELSE Outcome(NoExc, d)

\* mutant: a legacy `source` is accepted and left where it is
_validate_structure_without_lifting(d) ==
    IF d.spec.t = "absent"
    THEN Outcome(Raise("ValueError", "missing 'spec' section"), d)
    ELSE IF d.spec.t = "scalar"
    THEN Outcome(Raise("TypeError", "argument is not iterable"), d)
    ELSE IF "sources" \notin d.spec.mem /\ "source" \notin d.spec.mem
    THEN Outcome(Raise("ValueError", "missing 'sources' or 'source' in spec"), d)
    ELSE IF d.spec.t # "dict"
    THEN Outcome(Raise("AttributeError", "object has no attribute 'get'"), d)
    ELSE IF "source" \in d.spec.mem /\ "sources" \notin d.spec.mem
    THEN IF d.spec.source.t = "dict"
         THEN Outcome(NoExc, d)
         ELSE Outcome(Raise("ValueError", "'source' must be a dict"), d)
    ELSE IF d.spec.sources.t # "list"
    THEN Outcome(Raise("ValueError", "'sources' must be a list"), d)
    ELSE Outcome(NoExc, d)

_validate_structure(d) ==
    IF d.spec.t = "absent"
    THEN Outcome(Raise("ValueError", "missing 'spec' section"), d)
    ELSE IF d.spec.t = "scalar"
    \* line 44: `"sources" not in spec` on None or a number
    THEN Outcome(Raise("TypeError", "argument is not iterable"), d)
    ELSE IF "sources" \notin d.spec.mem /\ "source" \notin d.spec.mem
    THEN Outcome(Raise("ValueError", "missing 'sources' or 'source' in spec"), d)
    ELSE IF d.spec.t # "dict"
    \* lines 49 and 57: spec.get(...) on a str or a list
    THEN Outcome(Raise("AttributeError", "object has no attribute 'get'"), d)
    ELSE IF "source" \in d.spec.mem /\ "sources" \notin d.spec.mem
    THEN IF d.spec.source.t = "dict"
         THEN \* self._data["spec"]["sources"] = [source]; a list, so line 58 passes
              Outcome(NoExc,
                      [d EXCEPT !.spec.mem = @ \cup {"sources"},
                                !.spec.sources =
                                    MkSourcesVal("list", <<d.spec.source.val>>)])
         ELSE Outcome(Raise("ValueError", "'source' must be a dict"), d)
    ELSE IF d.spec.sources.t # "list"
    THEN Outcome(Raise("ValueError", "'sources' must be a list"), d)
    ELSE Outcome(NoExc, d)

ArgocdApplication(yaml_dict) ==
    IF yaml_dict.t # "dict"
    THEN Outcome(Raise("ValueError", "yaml_dict must be a dictionary"), yaml_dict)
    ELSE _validate_structure(yaml_dict)

\* self._data.get("spec", {}).get("sources", [])
Sources(d) == d.spec.sources.items

(***************************************************************************)
(* Accessors.                                                              *)
(***************************************************************************)
\* the indices (1-based) of the Sources that satisfy P, in order
RECURSIVE IndicesFrom(_, _, _)
IndicesFrom(sources, P(_), i) ==
    IF i > Len(sources) THEN <<>>
    ELSE (IF P(sources[i]) THEN <<i>> ELSE <<>>) \o IndicesFrom(sources, P, i + 1)

\* a dict keyed by str, in insertion order: a sequence of [name, val] entries
DictKeys(d) == [i \in 1..Len(d) |-> d[i].name]
DictHas(d, name) == \E i \in 1..Len(d) : d[i].name = name
DictGet(d, name) == d[CHOOSE i \in 1..Len(d) : d[i].name = name].val
\* d[name] = val: a new key goes last, an existing key keeps its place
DictSet(d, name, val) ==
    IF DictHas(d, name)
    THEN [i \in 1..Len(d) |-> IF d[i].name = name THEN [name |-> name, val |-> val]
                                                 ELSE d[i]]
    ELSE Append(d, [name |-> name, val |-> val])

\* mutant: a Source with `ref` is kept whatever its name and repoURL
RECURSIVE RefSourcesFrom_keeping_all(_, _, _)
RefSourcesFrom_keeping_all(sources, i, ref_sources) ==
    IF i > Len(sources) THEN ref_sources
    ELSE IF Has(sources[i], "ref")
    THEN RefSourcesFrom_keeping_all(sources, i + 1,
             DictSet(ref_sources, sources[i].ref, GetRepoURL(sources[i])))
    ELSE RefSourcesFrom_keeping_all(sources, i + 1, ref_sources)

RECURSIVE RefSourcesFrom(_, _, _)
RefSourcesFrom(sources, i, ref_sources) ==
    IF i > Len(sources) THEN ref_sources
    ELSE LET source == sources[i]
             ref_name == source.ref
             repo_url == GetRepoURL(source)
         IN  IF Has(source, "ref") /\ Truthy(ref_name) /\ Truthy(repo_url)
             THEN RefSourcesFrom(sources, i + 1, DictSet(ref_sources, ref_name, repo_url))
             ELSE RefSourcesFrom(sources, i + 1, ref_sources)

get_all_ref_sources(d) == RefSourcesFrom(Sources(d), 1, <<>>)

HasHelm(source) == Has(source, "helm")

\* the first Source with a `helm` key; NoSource stands for None
get_helm_source(d) ==
    LET found == IndicesFrom(Sources(d), HasHelm, 1)
    IN  IF Len(found) = 0 THEN NoSource ELSE Sources(d)[found[1]]

\* the first Source with a `chart` or a `path` key; NoSource stands for None
HasChartOrPath(source) == Has(source, "chart") \/ Has(source, "path")

\* mutant: only a Source with `chart` is looked for
get_chart_source_by_chart_key(d) ==
    LET found == IndicesFrom(Sources(d), LAMBDA s : Has(s, "chart"), 1)
    IN  IF Len(found) = 0 THEN NoSource ELSE Sources(d)[found[1]]

get_chart_source(d) ==
    LET found == IndicesFrom(Sources(d), HasChartOrPath, 1)
    IN  IF Len(found) = 0 THEN NoSource ELSE Sources(d)[found[1]]

get_helm_value_files(d) ==
    LET helm_source == get_helm_source(d)
    IN  IF Has(helm_source, "helm") THEN helm_source.helm.valueFiles ELSE <<>>

(***************************************************************************)
(* validate().  The outcome is "ok" or the ValueError raised, with the     *)
(* values its message is built from.                                       *)
(***************************************************************************)
VOutcome(kind) ==
    [kind |-> kind, got |-> "", names |-> <<>>, indices |-> <<>>, vf |-> <<>>, ref |-> <<>>]

NotCalled == VOutcome("none")
VOk == VOutcome("ok")

HasRef(source) == Has(source, "ref")

\* mutant: only the Sources of reference shape are looked at
RefNames_of_reference_shape(d) ==
    LET idx == IndicesFrom(Sources(d), _is_ref, 1)
    IN  [i \in 1..Len(idx) |-> Sources(d)[idx[i]].ref]

\* [source.get("ref") for source in sources if "ref" in source]
RefNames(d) ==
    LET idx == IndicesFrom(Sources(d), HasRef, 1)
    IN  [i \in 1..Len(idx) |-> Sources(d)[idx[i]].ref]

SeqToSet(s) == {s[i] : i \in 1..Len(s)}

\* the names met a second time by the loop of lines 340-343
Duplicates(ref_names) ==
    {ref_names[i] : i \in {j \in 1..Len(ref_names) :
                             \E k \in 1..(j - 1) : ref_names[k] = ref_names[j]}}

IsHelmChart(source) == _is_helm_repo(source) \/ _is_helm_git(source)
IsInvalidSource(source) == ~IsHelmChart(source) /\ ~_is_ref(source)

\* mutant: the ref name is not looked up
CheckValueFile_any_name(vf, ref_sources) ==
    IF StartsWith(vf, <<"$">>)
    THEN IF Len(Split1(Tail1(vf))) = 2
         THEN VOk
         ELSE [VOutcome("ref_path_expected") EXCEPT !.vf = vf]
    ELSE [VOutcome("ref_prefix_required") EXCEPT !.vf = vf]

\* lines 383-401 for one valueFiles entry
CheckValueFile(vf, ref_sources) ==
    IF StartsWith(vf, <<"$">>)
    THEN LET parts == Split1(Tail1(vf))
         IN  IF Len(parts) = 2
             THEN IF ~DictHas(ref_sources, parts[1])
                  THEN [VOutcome("undefined_ref") EXCEPT
                            !.vf = vf, !.ref = parts[1], !.names = DictKeys(ref_sources)]
                  ELSE VOk
             ELSE [VOutcome("ref_path_expected") EXCEPT !.vf = vf]
    ELSE [VOutcome("ref_prefix_required") EXCEPT !.vf = vf]

\* the loop of line 383: the first entry that raises decides
RECURSIVE CheckValueFiles(_, _, _)
CheckValueFiles(value_files, i, ref_sources) ==
    IF i > Len(value_files) THEN VOk
    ELSE LET r == CheckValueFile(value_files[i], ref_sources)
         IN  IF r.kind # "ok" THEN r
             ELSE CheckValueFiles(value_files, i + 1, ref_sources)

\* lines 327-331
CheckKind(d) ==
    IF d.kind # "Application"
    THEN [VOutcome("invalid_kind") EXCEPT !.got = d.kind]
    ELSE VOk

\* lines 334-346
CheckDuplicateRefs(d) ==
    LET ref_names == RefNames(d)
    IN  IF Len(ref_names) # Cardinality(SeqToSet(ref_names))
        THEN [VOutcome("duplicate_refs") EXCEPT !.names = Sorted(Duplicates(ref_names))]
        ELSE VOk

\* lines 349-364: the loop raises at the first Source of no shape
CheckEachSource(d) ==
    IF \E i \in 1..Len(Sources(d)) : IsInvalidSource(Sources(d)[i])
    THEN VOutcome("invalid_source")
    ELSE VOk

\* mutant: several chart Sources are accepted
CheckChartCount_at_least_one(d) ==
    IF Len(IndicesFrom(Sources(d), IsHelmChart, 1)) = 0
    THEN VOutcome("no_helm_chart")
    ELSE VOk

\* mutant: only the first chart Source is listed
CheckChartCount_first_index(d) ==
    LET helm_source_indices == IndicesFrom(Sources(d), IsHelmChart, 1)
    IN  IF Len(helm_source_indices) = 0
        THEN VOutcome("no_helm_chart")
        ELSE IF Len(helm_source_indices) > 1
        THEN [VOutcome("multiple_charts") EXCEPT !.indices = <<helm_source_indices[1] - 1>>]
        ELSE VOk

\* lines 367-375; enumerate() counts from 0
CheckChartCount(d) ==
    LET helm_source_indices == IndicesFrom(Sources(d), IsHelmChart, 1)
    IN  IF Len(helm_source_indices) = 0
        THEN VOutcome("no_helm_chart")
        ELSE IF Len(helm_source_indices) > 1
        THEN [VOutcome("multiple_charts") EXCEPT
                  !.indices = [i \in 1..Len(helm_source_indices) |->
                                   helm_source_indices[i] - 1]]
        ELSE VOk

\* lines 378-401
CheckValueFilesUseRefs(d) ==
    LET value_files == get_helm_value_files(d)
        ref_sources == get_all_ref_sources(d)
    IN  IF Len(ref_sources) > 0 /\ Len(value_files) > 0
        THEN CheckValueFiles(value_files, 1, ref_sources)
        ELSE VOk

\* the first check of the sequence that raises decides the outcome
FirstFailure(checks) ==
    IF \A i \in 1..Len(checks) : checks[i].kind = "ok"
    THEN VOk
    ELSE checks[CHOOSE i \in 1..Len(checks) :
                    /\ checks[i].kind # "ok"
                    /\ \A j \in 1..(i - 1) : checks[j].kind = "ok"]

\* mutant: the Sources are checked before the duplicate refs
validate_sources_first(d) ==
    FirstFailure(<<CheckKind(d), CheckEachSource(d), CheckDuplicateRefs(d),
                   CheckChartCount(d), CheckValueFilesUseRefs(d)>>)

validate(d) ==
    FirstFailure(<<CheckKind(d), CheckDuplicateRefs(d), CheckEachSource(d),
                   CheckChartCount(d), CheckValueFilesUseRefs(d)>>)

(***************************************************************************)
(* Paths (pathlib.Path on POSIX), as strings in normal form.  Only what    *)
(* the code relies on is modelled: repeated and trailing "/" are dropped,  *)
(* the empty path is ".", and joining an absolute right operand replaces   *)
(* the left one.                                                           *)
(***************************************************************************)
RECURSIVE Collapse(_)
Collapse(s) ==
    IF Len(s) < 2 THEN s
    ELSE IF s[1] = "/" /\ s[2] = "/" THEN Collapse(Tail(s))
    ELSE <<s[1]>> \o Collapse(Tail(s))

\* Path(s)
Path(s) ==
    LET c == Collapse(s)
    IN  IF Len(c) = 0 THEN <<".">>
        ELSE IF Len(c) > 1 /\ c[Len(c)] = "/" THEN SubSeq(c, 1, Len(c) - 1)
        ELSE c

\* base / rel
PathJoin(base, rel) ==
    IF Len(rel) = 0 THEN base
    ELSE IF rel[1] = "/" \/ base = <<".">> THEN Path(rel)
    ELSE Path(base \o <<"/">> \o rel)

\* Path(s).parent of an absolute path
Parent(s) ==
    LET slashes == {i \in 1..Len(s) : s[i] = "/"}
        last == CHOOSE i \in slashes : \A j \in slashes : j <= i
    IN  IF last = 1 THEN <<"/">> ELSE SubSeq(s, 1, last - 1)

(***************************************************************************)
(* git_helper.resolve_git_root.  A workdir carries what                    *)
(* `git -C workdir rev-parse --git-dir` answers there: its return code and *)
(* its output (".git" at the root of a working tree, else the absolute     *)
(* path of the .git directory).                                            *)
(***************************************************************************)
DotGit == <<".", "g", "i", "t">>

resolve_git_root(workdir) ==
    IF workdir.rc # 0
    THEN [ok |-> FALSE, root |-> <<>>]
    ELSE IF workdir.git_dir = DotGit
    THEN [ok |-> TRUE, root |-> workdir.path]
    ELSE [ok |-> TRUE, root |-> Parent(Path(workdir.git_dir))]

(***************************************************************************)
(* ref_mapper.build_ref_mapping and apply_ref_mapping_to_value_files.  An  *)
(* outcome is "ok" or the RuntimeError raised, with the values its message *)
(* is built from.                                                          *)
(***************************************************************************)
MOutcome(kind) ==
    [kind |-> kind, names |-> <<>>, vf |-> <<>>, ref |-> <<>>, workdir |-> <<>>,
     mapping |-> <<>>, files |-> <<>>, lookups |-> 0]

\* the mapping of lines 30-31: every override pair, its path as a Path
OverrideMapping(ref_map_override) ==
    [i \in 1..Len(ref_map_override) |->
        [name |-> ref_map_override[i].name, val |-> Path(ref_map_override[i].val)]]

\* mutant: the override is applied before ref_sources is looked at
build_ref_mapping_override_first(ref_sources, workdir, ref_map_override) ==
    IF Len(ref_map_override) > 0
    THEN [MOutcome("ok") EXCEPT !.mapping = OverrideMapping(ref_map_override)]
    ELSE IF Len(ref_sources) = 0
    THEN MOutcome("ok")
    ELSE IF Len(ref_sources) > 1
    THEN [MOutcome("multiple_refs") EXCEPT !.names = DictKeys(ref_sources)]
    ELSE LET git == resolve_git_root(workdir)
         IN  IF ~git.ok
             THEN [MOutcome("not_a_git_repository") EXCEPT
                       !.workdir = workdir.path, !.lookups = 1]
             ELSE [MOutcome("ok") EXCEPT
                       !.mapping = <<[name |-> ref_sources[1].name, val |-> git.root]>>,
                       !.lookups = 1]

\* mutant: only the override pairs that name a declared reference source
build_ref_mapping_declared_only(ref_sources, workdir, ref_map_override) ==
    IF Len(ref_sources) = 0
    THEN MOutcome("ok")
    ELSE IF Len(ref_map_override) > 0
    THEN [MOutcome("ok") EXCEPT
              !.mapping = SelectSeq(OverrideMapping(ref_map_override),
                                    LAMBDA e : DictHas(ref_sources, e.name))]
    ELSE IF Len(ref_sources) > 1
    THEN [MOutcome("multiple_refs") EXCEPT !.names = DictKeys(ref_sources)]
    ELSE LET git == resolve_git_root(workdir)
         IN  IF ~git.ok
             THEN [MOutcome("not_a_git_repository") EXCEPT
                       !.workdir = workdir.path, !.lookups = 1]
             ELSE [MOutcome("ok") EXCEPT
                       !.mapping = <<[name |-> ref_sources[1].name, val |-> git.root]>>,
                       !.lookups = 1]

\* mutant: the first reference source takes the git root, the others are left out
build_ref_mapping_first_wins(ref_sources, workdir, ref_map_override) ==
    IF Len(ref_sources) = 0
    THEN MOutcome("ok")
    ELSE IF Len(ref_map_override) > 0
    THEN [MOutcome("ok") EXCEPT !.mapping = OverrideMapping(ref_map_override)]
    ELSE LET git == resolve_git_root(workdir)
         IN  IF ~git.ok
             THEN [MOutcome("not_a_git_repository") EXCEPT
                       !.workdir = workdir.path, !.lookups = 1]
             ELSE [MOutcome("ok") EXCEPT
                       !.mapping = <<[name |-> ref_sources[1].name, val |-> git.root]>>,
                       !.lookups = 1]

\* mutant: the git root is looked up before the override is considered
build_ref_mapping_lookup_first(ref_sources, workdir, ref_map_override) ==
    IF Len(ref_sources) = 0
    THEN MOutcome("ok")
    ELSE LET git == resolve_git_root(workdir)
         IN  IF Len(ref_map_override) > 0
             THEN [MOutcome("ok") EXCEPT
                       !.mapping = OverrideMapping(ref_map_override), !.lookups = 1]
             ELSE IF Len(ref_sources) > 1
             THEN [MOutcome("multiple_refs") EXCEPT !.names = DictKeys(ref_sources)]
             ELSE IF ~git.ok
             THEN [MOutcome("not_a_git_repository") EXCEPT
                       !.workdir = workdir.path, !.lookups = 1]
             ELSE [MOutcome("ok") EXCEPT
                       !.mapping = <<[name |-> ref_sources[1].name, val |-> git.root]>>,
                       !.lookups = 1]

build_ref_mapping(ref_sources, workdir, ref_map_override) ==
    IF Len(ref_sources) = 0
    THEN MOutcome("ok")
    ELSE IF Len(ref_map_override) > 0
    THEN [MOutcome("ok") EXCEPT !.mapping = OverrideMapping(ref_map_override)]
    ELSE IF Len(ref_sources) > 1
    THEN [MOutcome("multiple_refs") EXCEPT !.names = DictKeys(ref_sources)]
    ELSE LET git == resolve_git_root(workdir)
         IN  IF ~git.ok
             THEN [MOutcome("not_a_git_repository") EXCEPT
                       !.workdir = workdir.path, !.lookups = 1]
             ELSE [MOutcome("ok") EXCEPT
                       !.mapping = <<[name |-> ref_sources[1].name, val |-> git.root]>>,
                       !.lookups = 1]

\* mutant: an entry whose name is not mapped is passed on as its relative path
ResolveValueFile_unmapped_kept(vf, ref_mapping) ==
    IF StartsWith(vf, <<"$">>)
    THEN LET parts == Split1(Tail1(vf))
         IN  IF Len(parts) = 2
             THEN IF DictHas(ref_mapping, parts[1])
                  THEN [MOutcome("ok") EXCEPT
                            !.files = <<PathJoin(DictGet(ref_mapping, parts[1]), parts[2])>>]
                  ELSE [MOutcome("ok") EXCEPT !.files = <<Path(parts[2])>>]
             ELSE [MOutcome("ref_path_expected") EXCEPT !.vf = vf]
    ELSE [MOutcome("mapping_prefix_expected") EXCEPT !.vf = vf]

\* lines 64-79 for one valueFiles entry
ResolveValueFile(vf, ref_mapping) ==
    IF StartsWith(vf, <<"$">>)
    THEN LET parts == Split1(Tail1(vf))
         IN  IF Len(parts) = 2
             THEN IF DictHas(ref_mapping, parts[1])
                  THEN [MOutcome("ok") EXCEPT
                            !.files = <<PathJoin(DictGet(ref_mapping, parts[1]), parts[2])>>]
                  ELSE [MOutcome("ref_not_in_mapping") EXCEPT !.ref = parts[1], !.vf = vf]
             ELSE [MOutcome("ref_path_expected") EXCEPT !.vf = vf]
    ELSE [MOutcome("mapping_prefix_expected") EXCEPT !.vf = vf]

\* mutant: each resolved path is put in front of the earlier ones
RECURSIVE ResolveFrom_prepending(_, _, _, _)
ResolveFrom_prepending(value_files, i, ref_mapping, resolved_files) ==
    IF i > Len(value_files)
    THEN [MOutcome("ok") EXCEPT !.files = resolved_files]
    ELSE LET r == ResolveValueFile(value_files[i], ref_mapping)
         IN  IF r.kind # "ok" THEN r
             ELSE ResolveFrom_prepending(value_files, i + 1, ref_mapping,
                                         r.files \o resolved_files)

RECURSIVE ResolveFrom(_, _, _, _)
ResolveFrom(value_files, i, ref_mapping, resolved_files) ==
    IF i > Len(value_files)
    THEN [MOutcome("ok") EXCEPT !.files = resolved_files]
    ELSE LET r == ResolveValueFile(value_files[i], ref_mapping)
         IN  IF r.kind # "ok" THEN r
             ELSE ResolveFrom(value_files, i + 1, ref_mapping, resolved_files \o r.files)

apply_ref_mapping_to_value_files(value_files, ref_mapping) ==
    ResolveFrom(value_files, 1, ref_mapping, <<>>)

(***************************************************************************)
(* compute_helm_args.                                                      *)
(***************************************************************************)
get_app_name(d) == d.name

\* mutant: the declared releaseName is not read
get_helm_release_name_unset(d) == ""

get_helm_release_name(d) ==
    LET helm_source == get_helm_source(d)
    IN  IF Has(helm_source, "helm") THEN helm_source.helm.releaseName ELSE ""

\* mutant: any helm section enables the flag
get_helm_skip_crds_of_any_helm(d) == Has(get_helm_source(d), "helm")

get_helm_skip_crds(d) ==
    LET helm_source == get_helm_source(d)
    IN  IF Has(helm_source, "helm") THEN helm_source.helm.skipCrds ELSE FALSE

\* an element of the argument list: a literal, or str(path)
Arg(s) == [lit |-> s, path |-> <<>>]
PathArg(path) == [lit |-> "", path |-> path]

\* the outcome of a call: the exception that left it ("none": it returned
\* args), the error it wraps, the number of resolve_git_root calls made, and
\* whether build_ref_mapping built a mapping
BOutcome(exception, error, args) ==
    [exc |-> exception, kind |-> error.kind, names |-> error.names, vf |-> error.vf,
     ref |-> error.ref, workdir |-> error.workdir, args |-> args,
     lookups |-> error.lookups, mapping |-> error.mapping, mapped |-> FALSE]

NoBuild == BOutcome("none", MOutcome("none"), <<>>)

\* mutant: a validation failure is reported like a resolver failure
compute_helm_args_wrapping_validation(d, workdir, ref_map_override) ==
    LET v == validate(d)
        release_name == IF get_helm_release_name(d) # ""
                        THEN get_helm_release_name(d) ELSE get_app_name(d)
        args == <<Arg("--release-name"), Arg(release_name)>>
                    \o (IF get_helm_skip_crds(d) THEN <<Arg("--skip-crds")>> ELSE <<>>)
        m == build_ref_mapping(get_all_ref_sources(d), workdir, ref_map_override)
        value_files_list == get_helm_value_files(d)
        r == apply_ref_mapping_to_value_files(value_files_list, m.mapping)
        values_files == IF Len(value_files_list) > 0 THEN r.files ELSE <<>>
    IN  IF v.kind # "ok"
        THEN BOutcome("ClickException",
                      [MOutcome(v.kind) EXCEPT !.names = v.names, !.vf = v.vf, !.ref = v.ref],
                      <<>>)
        ELSE IF m.kind # "ok"
        THEN BOutcome("ClickException", m, <<>>)
        ELSE IF Len(value_files_list) > 0 /\ r.kind # "ok"
        THEN [BOutcome("ClickException", r, <<>>) EXCEPT
                  !.lookups = m.lookups, !.mapping = m.mapping, !.mapped = TRUE]
        ELSE [BOutcome("none", m, args \o [i \in 1..(2 * Len(values_files)) |->
                                               IF i % 2 = 1 THEN Arg("-f")
                                               ELSE PathArg(values_files[i \div 2])])
                 EXCEPT !.mapped = TRUE]

compute_helm_args(d, workdir, ref_map_override) ==
    LET v == validate(d)
        release_name == IF get_helm_release_name(d) # ""
                        THEN get_helm_release_name(d) ELSE get_app_name(d)
        args == <<Arg("--release-name"), Arg(release_name)>>
                    \o (IF get_helm_skip_crds(d) THEN <<Arg("--skip-crds")>> ELSE <<>>)
        ref_sources == get_all_ref_sources(d)
        m == build_ref_mapping(ref_sources, workdir, ref_map_override)
        value_files_list == get_helm_value_files(d)
        r == apply_ref_mapping_to_value_files(value_files_list, m.mapping)
        values_files == IF Len(value_files_list) > 0 THEN r.files ELSE <<>>
    IN  IF v.kind # "ok"
        THEN BOutcome("AssertionError",
                      [MOutcome(v.kind) EXCEPT !.names = v.names, !.vf = v.vf, !.ref = v.ref],
                      <<>>)
        ELSE IF m.kind # "ok"
        THEN BOutcome("ClickException", m, <<>>)
        ELSE IF Len(value_files_list) > 0 /\ r.kind # "ok"
        THEN [BOutcome("ClickException", r, <<>>) EXCEPT
                  !.lookups = m.lookups, !.mapping = m.mapping, !.mapped = TRUE]
        ELSE [BOutcome("none", m, args \o [i \in 1..(2 * Len(values_files)) |->
                                               IF i % 2 = 1 THEN Arg("-f")
                                               ELSE PathArg(values_files[i \div 2])])
                 EXCEPT !.mapped = TRUE]

(***************************************************************************)
(* The inputs the model draws.                                             *)
(***************************************************************************)
\* all sequences over S of length at most n
RECURSIVE SeqsUpTo(_, _)
SeqsUpTo(S, n) ==
    IF n = 0 THEN {<<>>}
    ELSE LET shorter == SeqsUpTo(S, n - 1)
         IN  shorter \cup {Append(s, e) : s \in shorter, e \in S}

NameV == <<"v">>
NameO == <<"o">>
HttpsUrl == HttpsPrefix \o <<"h">>
HttpUrl == HttpPrefix \o <<"h">>
OciUrl == <<"e", "/", "a">>

\* "$v/a", "$v/b", "$o/b", "a" (no prefix), "$v" (no path after the name)
ValueFileEntries ==
    {<<"$", "v", "/", "a">>, <<"$", "v", "/", "b">>, <<"$", "o", "/", "b">>,
     <<"a">>, <<"$", "v">>}

\* valueFiles of two entries: one ref in both orders, two refs in both orders
TwoValueFiles ==
    {<<<<"$", "v", "/", "a">>, <<"$", "v", "/", "b">>>>,
     <<<<"$", "v", "/", "b">>, <<"$", "v", "/", "a">>>>,
     <<<<"$", "v", "/", "a">>, <<"$", "o", "/", "b">>>>,
     <<<<"$", "o", "/", "b">>, <<"$", "v", "/", "a">>>>}

HelmSections ==
    {MkHelm({"valueFiles"}, l, FALSE, "") :
        l \in SeqsUpTo(ValueFileEntries, MaxValueFiles) \cup TwoValueFiles}
        \cup {MkHelm({"valueFiles", "skipCrds"}, l, TRUE, "") : l \in TwoValueFiles}
        \cup {MkHelm({"releaseName"}, <<>>, FALSE, "rel"),
              MkHelm({"releaseName", "skipCrds"}, <<>>, FALSE, "")}
        \cup {MkHelm({}, <<>>, FALSE, ""),
              MkHelm({"skipCrds", "releaseName"}, <<>>, TRUE, "rel")}

ChartSources ==
    {MkSource({"chart", "repoURL", "helm"}, <<>>, OciUrl, h) : h \in HelmSections}
        \cup {MkSource({"chart", "repoURL"}, <<>>, HttpsUrl, NoHelm),
              MkSource({"path", "repoURL", "helm"}, <<>>, HttpsUrl,
                       MkHelm({"valueFiles"}, <<>>, FALSE, ""))}

ReferenceSources ==
    {MkSource({"ref", "repoURL"}, n, HttpsUrl, NoHelm) : n \in {NameV, NameO, <<>>}}
        \cup {MkSource({"ref"}, NameV, <<>>, NoHelm),
              MkSource({"ref", "repoURL"}, NameV, <<>>, NoHelm)}

\* Sources of no shape: no chart, path or ref; a path without helm; a chart
\* that also names a ref; a ref that also carries helm
InvalidSources ==
    {MkSource({"repoURL"}, <<>>, HttpsUrl, NoHelm),
     MkSource({"path", "repoURL"}, <<>>, HttpsUrl, NoHelm),
     MkSource({"chart", "ref", "repoURL"}, NameV, OciUrl, NoHelm),
     MkSource({"ref", "helm", "repoURL"}, NameO, HttpsUrl,
              MkHelm({"valueFiles"}, <<>>, FALSE, ""))}

AppSources == ChartSources \cup ReferenceSources \cup InvalidSources

Kinds == {"Application", "SomeKind"}

\* a directory outside any working tree; the root "/r" of a working tree; a
\* directory "/r/s" inside that tree; the root "/t" of a working tree linked
\* to the repository of "/r" (git worktree add), whose git directory is
\* "/r/.git/worktrees/t".  `top` is the root of the working tree that
\* contains the directory (git rev-parse --show-toplevel).
Workdirs ==
    {[path |-> <<"/", "w">>, rc |-> 128, git_dir |-> <<>>, top |-> <<>>],
     [path |-> <<"/", "r">>, rc |-> 0, git_dir |-> DotGit, top |-> <<"/", "r">>],
     [path |-> <<"/", "r", "/", "s">>, rc |-> 0, git_dir |-> <<"/", "r", "/">> \o DotGit,
      top |-> <<"/", "r">>],
     [path |-> <<"/", "t">>, rc |-> 0,
      git_dir |-> <<"/", "r", "/">> \o DotGit
                      \o <<"/", "w", "o", "r", "k", "t", "r", "e", "e", "s", "/", "t">>,
      top |-> <<"/", "t">>]}

\* --ref-map: none; v=/p; o=/q/; v=/p and o=/q/
Overrides ==
    {<<>>,
     <<[name |-> NameV, val |-> <<"/", "p">>]>>,
     <<[name |-> NameO, val |-> <<"/", "q", "/">>]>>,
     <<[name |-> NameV, val |-> <<"/", "p">>], [name |-> NameO, val |-> <<"/", "q", "/">>]>>}

\* documents with a `spec.sources` list, or with a legacy `spec.source` mapping
AppDocs ==
    {MkDoc("dict", k, "app",
           MkSpec("dict", {"sources"}, MkSourcesVal("list", l), NoSourceVal)) :
        k \in Kinds, l \in SeqsUpTo(AppSources, MaxSources)}
    \cup
    {MkDoc("dict", k, "app",
           MkSpec("dict", {"source"}, NoSourcesVal, MkSourceVal("dict", s))) :
        k \in Kinds, s \in AppSources}

\* two reference Sources of different names, the first or the second of them
\* possibly without a repoURL
RefPairs ==
    LET V == MkSource({"ref", "repoURL"}, NameV, HttpsUrl, NoHelm)
        O == MkSource({"ref", "repoURL"}, NameO, HttpsUrl, NoHelm)
        BareO == MkSource({"ref"}, NameO, <<>>, NoHelm)
    IN  {<<V, O>>, <<O, V>>, <<V, BareO>>, <<BareO, V>>}

\* documents that declare a chart Source and two reference Sources, the chart
\* first or last
TwoRefDocs ==
    {MkDoc("dict", "Application", "app",
           MkSpec("dict", {"sources"}, MkSourcesVal("list", l), NoSourceVal)) :
        l \in UNION {{<<c, r[1], r[2]>>, <<r[1], r[2], c>>} :
                         c \in ChartSources,
                         r \in RefPairs}}

\* documents of every structure: not a mapping; `spec` absent, a scalar, a str
\* or a list; `sources` and `source` absent or of any type
SampleChart == MkSource({"chart", "repoURL"}, <<>>, OciUrl, NoHelm)
SampleRef == MkSource({"ref", "repoURL"}, NameV, HttpsUrl, NoHelm)

SourcesVals ==
    {MkSourcesVal(t, <<>>) : t \in {"scalar", "str", "dict"}}
        \cup {MkSourcesVal("list", l) : l \in {<<>>, <<SampleChart>>, <<SampleChart, SampleRef>>}}

SourceVals ==
    {MkSourceVal(t, NoSource) : t \in {"scalar", "str", "list"}}
        \cup {MkSourceVal("dict", s) : s \in {SampleChart, SampleRef}}

StructureDocs ==
    {MkDoc(t, "", "", NoSpec) : t \in {"scalar", "str", "list"}}
    \cup
    {MkDoc("dict", "Application", "app", MkSpec(t, mem, NoSourcesVal, NoSourceVal)) :
        t \in {"absent", "scalar"}, mem \in {{}}}
    \cup
    {MkDoc("dict", "Application", "app", MkSpec(t, mem, NoSourcesVal, NoSourceVal)) :
        t \in {"str", "list"}, mem \in SUBSET {"sources", "source"}}
    \cup
    {MkDoc("dict", "Application", "app", MkSpec("dict", mem, ss, s)) :
        mem \in SUBSET {"sources", "source"}, ss \in SourcesVals, s \in SourceVals}

Documents == AppDocs \cup TwoRefDocs \cup StructureDocs

(***************************************************************************)
(* The client of the Application: it constructs one from a document, then  *)
(* calls one of its methods, or compute_helm_args on it.  No method writes *)
(* to _data after construction, so each call is made on the Application as *)
(* constructed.                                                            *)
(***************************************************************************)
\* what an accessor returned: a Source (found: FALSE for None), a release
\* name, the skipCrds flag or the valueFiles list
Ret(found, source, name, flag, files) ==
    [found |-> found, source |-> source, name |-> name, flag |-> flag, files |-> files]

NoRet == Ret(FALSE, NoSource, "", FALSE, <<>>)

NoWorkdir == [path |-> <<>>, rc |-> 0, git_dir |-> <<>>, top |-> <<>>]

\* the arguments of a call that takes workdir and ref_map_override
MapperArgs(ref_sources, workdir, ref_map_override, value_files) ==
    [ref_sources |-> ref_sources, workdir |-> workdir,
     ref_map_override |-> ref_map_override, value_files |-> value_files]

NoMapperArgs == MapperArgs(<<>>, NoWorkdir, <<>>, <<>>)

\* the client has made no call yet: `calls` counts the calls that returned,
\* `seen` holds their names, `first` is the outcome of the first validate()
NoHist == [calls |-> 0, seen |-> {}, first |-> NotCalled]

\* no render_manifests or download_chart run is in progress
NoRun == [pc |-> "none"]

NoShape == [helm_repo |-> FALSE, helm_oci |-> FALSE, helm_git |-> FALSE, ref |-> FALSE]

Init ==
    /\ pc = "start"
    /\ doc \in Documents
    /\ data = NoDoc
    /\ exc = NoExc
    /\ op = "none"
    /\ vres = NotCalled
    /\ refs = <<>>
    /\ bres = NoBuild
    /\ src = NoSource
    /\ shape = NoShape
    /\ ret = NoRet
    /\ margs = NoMapperArgs
    /\ mres = MOutcome("none")
    /\ hist = NoHist
    /\ run = NoRun

\* app = ArgocdApplication(doc)
Construct ==
    /\ pc = "start"
    /\ LET r == ArgocdApplication(doc)
       IN  /\ exc' = r.exc
           /\ data' = r.data
           /\ pc' = IF r.exc.type = "none" THEN "app" ELSE "failed"
    /\ UNCHANGED <<doc, op, vres, refs, bres, src, shape, ret, margs, mres, hist, run>>

\* mutant: validate() takes the Sources off the list as it checks them
Validate_consuming ==
    /\ pc = "app"
    /\ op = "none"
    /\ op' = "validate"
    /\ vres' = validate(data)
    /\ data' = [data EXCEPT !.spec.sources.items = <<>>]
    /\ refs' = <<>>
    /\ bres' = NoBuild
    /\ ret' = NoRet
    /\ margs' = NoMapperArgs
    /\ UNCHANGED <<pc, doc, exc, src, shape, mres, hist, run>>

\* app.validate()
Validate ==
    /\ pc = "app"
    /\ op = "none"
    /\ op' = "validate"
    /\ vres' = validate(data)
    /\ refs' = <<>>
    /\ bres' = NoBuild
    /\ ret' = NoRet
    /\ margs' = NoMapperArgs
    /\ UNCHANGED <<pc, doc, data, exc, src, shape, mres, hist, run>>

\* app.get_all_ref_sources()
GetAllRefSources ==
    /\ pc = "app"
    /\ op = "none"
    /\ op' = "get_all_ref_sources"
    /\ refs' = get_all_ref_sources(data)
    /\ vres' = NotCalled
    /\ bres' = NoBuild
    /\ ret' = NoRet
    /\ margs' = NoMapperArgs
    /\ UNCHANGED <<pc, doc, data, exc, src, shape, mres, hist, run>>

\* compute_helm_args(app, workdir, ref_map_override)
ComputeHelmArgs ==
    /\ pc = "app"
    /\ op = "none"
    /\ \E workdir \in Workdirs, ref_map_override \in Overrides :
           /\ bres' = compute_helm_args(data, workdir, ref_map_override)
           /\ margs' = MapperArgs(<<>>, workdir, ref_map_override, <<>>)
    /\ op' = "compute_helm_args"
    /\ vres' = NotCalled
    /\ refs' = <<>>
    /\ ret' = NoRet
    /\ UNCHANGED <<pc, doc, data, exc, src, shape, mres, hist, run>>

\* an accessor call leaves in `ret` the value it returned
Accessor(name, value) ==
    /\ pc = "app"
    /\ op = "none"
    /\ op' = name
    /\ ret' = value
    /\ vres' = NotCalled
    /\ refs' = <<>>
    /\ bres' = NoBuild
    /\ margs' = NoMapperArgs
    /\ UNCHANGED <<pc, doc, data, exc, src, shape, mres, hist, run>>

\* app.get_chart_source()
GetChartSource ==
    LET source == get_chart_source(data)
    IN  Accessor("get_chart_source", Ret(source # NoSource, source, "", FALSE, <<>>))

\* app.get_helm_release_name()
GetHelmReleaseName ==
    Accessor("get_helm_release_name",
             Ret(FALSE, NoSource, get_helm_release_name(data), FALSE, <<>>))

\* app.get_helm_skip_crds()
GetHelmSkipCrds ==
    Accessor("get_helm_skip_crds",
             Ret(FALSE, NoSource, "", get_helm_skip_crds(data), <<>>))

\* app.get_helm_value_files()
GetHelmValueFiles ==
    Accessor("get_helm_value_files",
             Ret(FALSE, NoSource, "", FALSE, get_helm_value_files(data)))

Next ==
    \/ Construct
    \/ Validate
    \/ GetAllRefSources
    \/ ComputeHelmArgs
    \/ GetChartSource
    \/ GetHelmReleaseName
    \/ GetHelmSkipCrds
    \/ GetHelmValueFiles

Spec == Init /\ [][Next]_vars

(***************************************************************************)
(* The per-source predicates on their own: every combination of the keys   *)
(* chart, path, ref, helm, repoURL, with several repoURL values.           *)
(***************************************************************************)
\* "", "http" (no "://"), "http://h", "https://h", "e/a"
ShapeUrls == {<<>>, <<"h", "t", "t", "p">>, HttpUrl, HttpsUrl, OciUrl}

ShapeSources ==
    {MkSource(keys, NameV, url, MkHelm({"valueFiles"}, <<>>, FALSE, "")) :
        keys \in SUBSET SourceKeys, url \in ShapeUrls}

InitShape ==
    /\ pc = "source"
    /\ src \in ShapeSources
    /\ shape = NoShape
    /\ ret = NoRet
    /\ margs = NoMapperArgs
    /\ mres = MOutcome("none")
    /\ doc = NoDoc
    /\ data = NoDoc
    /\ exc = NoExc
    /\ op = "none"
    /\ vres = NotCalled
    /\ refs = <<>>
    /\ bres = NoBuild
    /\ hist = NoHist
    /\ run = NoRun

Classify ==
    /\ pc = "source"
    /\ pc' = "classified"
    /\ shape' = [helm_repo |-> _is_helm_repo(src),
                 helm_oci |-> _is_helm_oci(src),
                 helm_git |-> _is_helm_git(src),
                 ref |-> _is_ref(src)]
    /\ UNCHANGED <<doc, data, exc, op, vres, refs, bres, src, ret, margs, mres, hist, run>>

NextShape == Classify

SpecShape == InitShape /\ [][NextShape]_vars

(***************************************************************************)
(* The ref_mapper functions on their own: build_ref_mapping on any         *)
(* ref_sources, workdir and override, then                                 *)
(* apply_ref_mapping_to_value_files on the mapping it returned.            *)
(***************************************************************************)
\* name -> repoURL dicts: none, one, two in both insertion orders
MapperRefSources ==
    {<<>>,
     <<[name |-> NameV, val |-> HttpsUrl]>>,
     <<[name |-> NameO, val |-> HttpsUrl]>>,
     <<[name |-> NameV, val |-> HttpsUrl], [name |-> NameO, val |-> HttpsUrl]>>,
     <<[name |-> NameO, val |-> HttpsUrl], [name |-> NameV, val |-> HttpsUrl]>>}

\* overrides: those of the CLI, o=/q/ before v=/p, and one with an empty name
MapperOverrides ==
    Overrides \cup
        {<<[name |-> NameO, val |-> <<"/", "q", "/">>], [name |-> NameV, val |-> <<"/", "p">>]>>,
         <<[name |-> <<>>, val |-> <<"/", "e">>]>>}

\* the valueFiles entries, and "$/a" (empty name), "$v/" (empty path)
MapperEntries ==
    ValueFileEntries \cup {<<"$", "/", "a">>, <<"$", "v", "/">>}

InitMapper ==
    /\ pc = "mapper"
    /\ \E ref_sources \in MapperRefSources, workdir \in Workdirs,
          ref_map_override \in MapperOverrides,
          value_files \in SeqsUpTo(MapperEntries, MaxResolved) :
           margs = MapperArgs(ref_sources, workdir, ref_map_override, value_files)
    /\ mres = MOutcome("none")
    /\ doc = NoDoc
    /\ data = NoDoc
    /\ exc = NoExc
    /\ op = "none"
    /\ vres = NotCalled
    /\ refs = <<>>
    /\ bres = NoBuild
    /\ src = NoSource
    /\ shape = NoShape
    /\ ret = NoRet
    /\ hist = NoHist
    /\ run = NoRun

\* ref_mapping = build_ref_mapping(ref_sources, workdir, ref_map_override)
BuildRefMapping ==
    /\ pc = "mapper"
    /\ pc' = "built"
    /\ mres' = build_ref_mapping(margs.ref_sources, margs.workdir, margs.ref_map_override)
    /\ UNCHANGED <<doc, data, exc, op, vres, refs, bres, src, shape, ret, margs, hist, run>>

\* apply_ref_mapping_to_value_files(value_files, ref_mapping)
ApplyRefMappingToValueFiles ==
    /\ pc = "built"
    /\ mres.kind = "ok"
    /\ pc' = "applied"
    /\ mres' = [apply_ref_mapping_to_value_files(margs.value_files, mres.mapping)
                    EXCEPT !.mapping = mres.mapping, !.lookups = mres.lookups]
    /\ UNCHANGED <<doc, data, exc, op, vres, refs, bres, src, shape, ret, margs, hist, run>>

NextMapper == BuildRefMapping \/ ApplyRefMappingToValueFiles

SpecMapper == InitMapper /\ [][NextMapper]_vars

(***************************************************************************)
(* A client that keeps calling, as render_manifests does: once a call has  *)
(* returned it calls again, any method or compute_helm_args, in any order, *)
(* up to MaxCalls returned calls.                                          *)
(***************************************************************************)
MaxCalls == 3

\* a chart with valueFiles ["$v/a"], a chart with a release name and
\* skipCrds, a chart without helm, a Git chart, the reference v, a reference
\* without repoURL, and a Source of no shape
CallSources ==
    {MkSource({"chart", "repoURL", "helm"}, <<>>, OciUrl,
              MkHelm({"valueFiles"}, <<<<"$", "v", "/", "a">>>>, FALSE, "")),
     MkSource({"chart", "repoURL", "helm"}, <<>>, OciUrl,
              MkHelm({"skipCrds", "releaseName"}, <<>>, TRUE, "rel")),
     MkSource({"chart", "repoURL"}, <<>>, HttpsUrl, NoHelm),
     MkSource({"path", "repoURL", "helm"}, <<>>, HttpsUrl,
              MkHelm({"valueFiles"}, <<>>, FALSE, "")),
     MkSource({"ref", "repoURL"}, NameV, HttpsUrl, NoHelm),
     MkSource({"ref"}, NameV, <<>>, NoHelm),
     MkSource({"repoURL"}, <<>>, HttpsUrl, NoHelm)}

\* Applications of at most MaxSources of these Sources, as a `spec.sources`
\* list or a legacy `spec.source` mapping, and one document of another kind
CallDocs ==
    {d \in AppDocs :
        /\ d.kind = "Application"
        /\ \A i \in 1..Len(d.spec.sources.items) : d.spec.sources.items[i] \in CallSources
        /\ d.spec.source.t = "dict" => d.spec.source.val \in CallSources}
    \cup
    {d \in AppDocs :
        /\ d.kind = "SomeKind"
        /\ d.spec.sources.items = <<MkSource({"chart", "repoURL"}, <<>>, HttpsUrl, NoHelm)>>}

InitCalls ==
    /\ Init
    /\ doc \in CallDocs

\* the call returns to the client, which notes what it has seen
Return ==
    /\ pc = "app"
    /\ op # "none"
    /\ hist.calls < MaxCalls
    /\ hist' = [calls |-> hist.calls + 1,
                seen |-> hist.seen \cup {op},
                first |-> IF op = "validate" /\ hist.first = NotCalled
                          THEN vres ELSE hist.first]
    /\ op' = "none"
    /\ vres' = NotCalled
    /\ refs' = <<>>
    /\ bres' = NoBuild
    /\ ret' = NoRet
    /\ margs' = NoMapperArgs
    /\ UNCHANGED <<pc, doc, data, exc, src, shape, mres, run>>

NextCalls == Next \/ Return

SpecCalls == InitCalls /\ [][NextCalls]_vars

(***************************************************************************)
(* The same client, which also writes to what it holds: the dict it handed *)
(* to the constructor (_data is that dict, not a copy of it) and the `helm`*)
(* dict of a Source that get_chart_source() returned (dict(source) copies  *)
(* the Source's keys, not the dicts under them).                           *)
(***************************************************************************)
\* the index of the Source get_chart_source() copies
ChartSourceIndex(d) ==
    CHOOSE i \in 1..Len(Sources(d)) :
        /\ HasChartOrPath(Sources(d)[i])
        /\ \A j \in 1..(i - 1) : ~HasChartOrPath(Sources(d)[j])

\* yaml_dict["kind"] = kind, or yaml_dict["spec"]["sources"].clear(), on the
\* dict handed to the constructor
MutateHeldDocument ==
    /\ pc = "app"
    /\ op = "none"
    /\ hist.calls < MaxCalls
    /\ \/ \E kind \in Kinds : /\ kind # data.kind
                              /\ data' = [data EXCEPT !.kind = kind]
       \/ /\ Sources(data) # <<>>
          /\ data' = [data EXCEPT !.spec.sources.items = <<>>]
    /\ hist' = [hist EXCEPT !.calls = @ + 1, !.seen = @ \cup {"caller_write"}]
    /\ UNCHANGED <<pc, doc, exc, op, vres, refs, bres, src, shape, ret, margs, mres, run>>

\* source = app.get_chart_source(); source["helm"]["releaseName"] = "x"
MutateReturnedSource ==
    /\ pc = "app"
    /\ op = "get_chart_source"
    /\ ret.found
    /\ Has(ret.source, "helm")
    /\ ret.source.helm.releaseName # "x"
    /\ LET i == ChartSourceIndex(data)
           helm == [ret.source.helm EXCEPT !.keys = @ \cup {"releaseName"},
                                           !.releaseName = "x"]
       IN  /\ data' = IF doc.spec.mem = {"source"}
                      THEN [data EXCEPT !.spec.sources.items[i].helm = helm,
                                        !.spec.source.val.helm = helm]
                      ELSE [data EXCEPT !.spec.sources.items[i].helm = helm]
           /\ ret' = [ret EXCEPT !.source.helm = helm]
    /\ UNCHANGED <<pc, doc, exc, op, vres, refs, bres, src, shape, margs, mres, hist, run>>

NextCaller == NextCalls \/ MutateHeldDocument \/ MutateReturnedSource

SpecCaller == InitCalls /\ [][NextCaller]_vars

(***************************************************************************)
(* render_manifests: load the document, validate, fetch the chart, compute *)
(* the helm arguments, run `helm template` and write the manifest.  Each   *)
(* step is one action; `run.steps` lists the steps entered so far, and an  *)
(* exception that leaves a step leaves render_manifests (run.pc "failed"). *)
(* download_chart and the helm process answer as their environment lets    *)
(* them: both outcomes are drawn.                                          *)
(***************************************************************************)
RenderDocs == CallDocs \cup StructureDocs

\* a run before its first step
RenderRun ==
    [pc |-> "load", steps |-> <<>>, readable |-> TRUE, fetch |-> "none", helm |-> "none",
     written |-> FALSE]

InitRender ==
    /\ pc = "start"
    /\ doc \in RenderDocs
    /\ \E workdir \in Workdirs, ref_map_override \in Overrides :
           margs = MapperArgs(<<>>, workdir, ref_map_override, <<>>)
    /\ run = RenderRun
    /\ data = NoDoc
    /\ exc = NoExc
    /\ op = "none"
    /\ vres = NotCalled
    /\ refs = <<>>
    /\ bres = NoBuild
    /\ src = NoSource
    /\ shape = NoShape
    /\ ret = NoRet
    /\ mres = MOutcome("none")
    /\ hist = NoHist

\* app = load_application_yaml(application_yaml_path): the file may not open
\* or parse, and the constructor may raise
RenderLoad ==
    /\ run.pc = "load"
    /\ \E readable \in BOOLEAN :
           LET r == ArgocdApplication(doc)
           IN  IF readable
               THEN /\ exc' = r.exc
                    /\ data' = r.data
                    /\ pc' = IF r.exc.type = "none" THEN "app" ELSE "failed"
                    /\ run' = [run EXCEPT !.steps = Append(@, "load"),
                                          !.pc = IF r.exc.type = "none"
                                                 THEN "validate" ELSE "failed"]
               ELSE /\ exc' = Raise("OSError", "cannot read application.yaml")
                    /\ data' = data
                    /\ pc' = "failed"
                    /\ run' = [run EXCEPT !.steps = Append(@, "load"),
                                          !.readable = FALSE, !.pc = "failed"]
    /\ UNCHANGED <<doc, op, vres, refs, bres, src, shape, ret, margs, mres, hist>>

\* mutant: a validation failure is logged and the run goes on
RenderValidate_reporting_only ==
    /\ run.pc = "validate"
    /\ vres' = validate(data)
    /\ run' = [run EXCEPT !.steps = Append(@, "validate"), !.pc = "download"]
    /\ UNCHANGED <<pc, doc, data, exc, op, refs, bres, src, shape, ret, margs, mres, hist>>

\* app.validate(); a ValueError leaves as click.ClickException
RenderValidate ==
    /\ run.pc = "validate"
    /\ vres' = validate(data)
    /\ run' = [run EXCEPT !.steps = Append(@, "validate"),
                          !.pc = IF validate(data).kind = "ok" THEN "download" ELSE "failed"]
    /\ UNCHANGED <<pc, doc, data, exc, op, refs, bres, src, shape, ret, margs, mres, hist>>

\* chart_path = download_chart(app, chart_dir, workdir, verbose)
RenderDownloadChart ==
    /\ run.pc = "download"
    /\ \E outcome \in {"ok", "error"} :
           run' = [run EXCEPT !.steps = Append(@, "download"),
                              !.fetch = outcome,
                              !.pc = IF outcome = "ok" THEN "build" ELSE "failed"]
    /\ UNCHANGED <<pc, doc, data, exc, op, vres, refs, bres, src, shape, ret, margs, mres,
                   hist>>

\* helm_args = compute_helm_args(app, workdir, ref_map_override, verbose)
RenderComputeHelmArgs ==
    /\ run.pc = "build"
    /\ LET b == compute_helm_args(data, margs.workdir, margs.ref_map_override)
       IN  /\ bres' = b
           /\ run' = [run EXCEPT !.steps = Append(@, "build"),
                                 !.pc = IF b.exc = "none" THEN "template" ELSE "failed"]
    /\ UNCHANGED <<pc, doc, data, exc, op, vres, refs, src, shape, ret, margs, mres, hist>>

\* run_helm_template(chart_path, helm_args, output_dir, ...): a RuntimeError
\* when helm exits with a code other than 0, else the manifest file is written
RenderRunHelmTemplate ==
    /\ run.pc = "template"
    /\ \E returncode \in {0, 1} :
           run' = [run EXCEPT !.steps = Append(@, "template"),
                              !.helm = IF returncode = 0 THEN "ok" ELSE "error",
                              !.written = (returncode = 0),
                              !.pc = IF returncode = 0 THEN "done" ELSE "failed"]
    /\ UNCHANGED <<pc, doc, data, exc, op, vres, refs, bres, src, shape, ret, margs, mres,
                   hist>>

NextRender ==
    \/ RenderLoad
    \/ RenderValidate
    \/ RenderDownloadChart
    \/ RenderComputeHelmArgs
    \/ RenderRunHelmTemplate

SpecRender == InitRender /\ [][NextRender]_vars

(***************************************************************************)
(* Fetching the chart: the standalone script (extract_chart_info, then its *)
(* download_chart) and the package (chart_manager.download_chart) take the *)
(* version from the chart Source, then pull a Helm chart or clone the      *)
(* repository and check the revision out (git_helper.checkout_git_revision,*)
(* of which the script holds a copy).  Every command answers as its        *)
(* environment lets it: both return codes are drawn.                       *)
(***************************************************************************)
\* str.lstrip(chars) for one character: every leading c is taken off
RECURSIVE LStrip(_, _)
LStrip(s, c) ==
    IF s # <<>> /\ Head(s) = c THEN LStrip(Tail(s), c) ELSE s

\* targetRevision values: absent, "", "1", "v1", "vv1", "v", "m", "va"
Revisions ==
    {<<>>, <<"1">>, <<"v", "1">>, <<"v", "v", "1">>, <<"v">>, <<"m">>, <<"v", "a">>}

\* the chart Source of a validated Application: a Helm chart (in a repository
\* or an OCI registry) or a chart in a Git repository, with or without a
\* targetRevision
ChartInfoSources ==
    {[keys |-> k \cup {"targetRevision"}, repoURL |-> u, targetRevision |-> v] :
        k \in {{"chart", "repoURL"}, {"chart", "repoURL", "helm"}, {"path", "repoURL", "helm"}},
        u \in {HttpsUrl, OciUrl},
        v \in Revisions}
    \cup
    {[keys |-> k, repoURL |-> u, targetRevision |-> <<>>] :
        k \in {{"chart", "repoURL"}, {"chart", "repoURL", "helm"}, {"path", "repoURL", "helm"}},
        u \in {HttpsUrl, OciUrl}}

\* source.get("targetRevision", "")
GetTargetRevision(source) ==
    IF Has(source, "targetRevision") THEN source.targetRevision ELSE <<>>

\* the standalone script: (version, is_git_chart) of the chart Source
extract_chart_info(source) ==
    IF Has(source, "chart")
    THEN [version |-> LStrip(GetTargetRevision(source), "v"), is_git |-> FALSE]
    ELSE [version |-> GetTargetRevision(source), is_git |-> TRUE]

\* the package: download_chart lines 113-117 on the chart Source
ChartInfoOfDownload(source) ==
    [version |-> LStrip(GetTargetRevision(source), "v"), is_git |-> _is_helm_git(source)]

\* mutant: after a checkout that failed a second time, fetch once more
checkout_git_revision_fetching_again(log) ==
    IF log = <<>> THEN "checkout"
    ELSE IF log[Len(log)].cmd = "checkout"
    THEN (IF log[Len(log)].rc = 0 THEN "return"
          ELSE IF Len(log) < 5 THEN "fetch" ELSE "raise")
    ELSE (IF log[Len(log)].rc # 0 THEN "raise" ELSE "checkout")

\* what checkout_git_revision does next, after the git commands of `log`
\* (each with its return code): run a checkout, run a fetch, return or raise
checkout_git_revision(log) ==
    IF log = <<>> THEN "checkout"
    ELSE IF Len(log) = 1 THEN (IF log[1].rc = 0 THEN "return" ELSE "fetch")
    ELSE IF Len(log) = 2 THEN (IF log[2].rc # 0 THEN "raise" ELSE "checkout")
    ELSE (IF log[3].rc # 0 THEN "raise" ELSE "return")

\* a run before its first step
ChartRun(impl, source) ==
    [pc |-> "info", impl |-> impl, source |-> source, version |-> <<>>, is_git |-> FALSE,
     revision |-> <<>>, log |-> <<>>, err |-> "none"]

InitChart ==
    /\ \E impl \in {"standalone", "package"}, source \in ChartInfoSources :
           run = ChartRun(impl, source)
    /\ pc = "chart"
    /\ doc = NoDoc
    /\ data = NoDoc
    /\ exc = NoExc
    /\ op = "none"
    /\ vres = NotCalled
    /\ refs = <<>>
    /\ bres = NoBuild
    /\ src = NoSource
    /\ shape = NoShape
    /\ ret = NoRet
    /\ margs = NoMapperArgs
    /\ mres = MOutcome("none")
    /\ hist = NoHist

\* the rest of the state is not touched by a chart run
ChartFrame ==
    UNCHANGED <<pc, doc, data, exc, op, vres, refs, bres, src, shape, ret, margs, mres, hist>>

\* version and is_git: extract_chart_info in the script, the first lines of
\* download_chart in the package
ChartInfo ==
    /\ run.pc = "info"
    /\ LET info == IF run.impl = "standalone" THEN extract_chart_info(run.source)
                   ELSE ChartInfoOfDownload(run.source)
       IN  run' = [run EXCEPT !.version = info.version, !.is_git = info.is_git,
                              !.pc = "should_download"]
    /\ ChartFrame

\* should_download_chart: always for a Git chart; for a Helm chart, unless
\* the chart directory holds that version already
ShouldDownloadChart ==
    /\ run.pc = "should_download"
    /\ \E present \in BOOLEAN :
           run' = [run EXCEPT !.pc = IF run.is_git THEN "clone"
                                     ELSE IF present THEN "done" ELSE "pull"]
    /\ ChartFrame

\* helm pull (after helm repo add for a repository that is not OCI)
HelmPull ==
    /\ run.pc = "pull"
    /\ \E returncode \in {0, 1} :
           run' = [run EXCEPT !.pc = IF returncode = 0 THEN "done" ELSE "failed",
                              !.err = IF returncode = 0 THEN "none" ELSE "helm"]
    /\ ChartFrame

\* repo_path = clone_or_update_git_repo(repo_url, workdir, verbose)
CloneOrUpdateGitRepo ==
    /\ run.pc = "clone"
    /\ \E returncode \in {0, 1} :
           run' = [run EXCEPT !.pc = IF returncode = 0 THEN "checkout" ELSE "failed",
                              !.err = IF returncode = 0 THEN "none" ELSE "clone"]
    /\ ChartFrame

\* checkout_git_revision(repo_path, version, verbose), one git command at a time
CheckoutGitRevision ==
    /\ run.pc = "checkout"
    /\ LET step == checkout_git_revision(run.log)
       IN  IF step \in {"checkout", "fetch"}
           THEN \E returncode \in {0, 1} :
                    run' = [run EXCEPT !.log = Append(@, [cmd |-> step, rc |-> returncode]),
                                       !.revision = run.version]
           ELSE run' = [run EXCEPT !.pc = IF step = "return" THEN "symlink" ELSE "failed",
                                   !.err = IF step = "return" THEN "none" ELSE "checkout"]
    /\ ChartFrame

\* _symlink_git_chart(repo_path, chart_name, chart_dir, verbose)
SymlinkGitChart ==
    /\ run.pc = "symlink"
    /\ \E found \in BOOLEAN :
           run' = [run EXCEPT !.pc = IF found THEN "done" ELSE "failed",
                              !.err = IF found THEN "none" ELSE "symlink"]
    /\ ChartFrame

NextChart ==
    \/ ChartInfo
    \/ ShouldDownloadChart
    \/ HelmPull
    \/ CloneOrUpdateGitRepo
    \/ CheckoutGitRevision
    \/ SymlinkGitChart

SpecChart == InitChart /\ [][NextChart]_vars

\* every subprocess the run waits for returns, and the run takes its next step
SpecChartLive == SpecChart /\ WF_vars(NextChart)

(***************************************************************************)
(* The shapes of the data model, by the keys a Source carries.             *)
(***************************************************************************)
HelmRepoShaped(s) == "chart" \in s.keys /\ s.keys \cap {"path", "ref"} = {}
GitShaped(s) == {"path", "helm"} \subseteq s.keys /\ s.keys \cap {"chart", "ref"} = {}
ChartShaped(s) == HelmRepoShaped(s) \/ GitShaped(s)
RefShaped(s) == "ref" \in s.keys /\ s.keys \cap {"chart", "path", "helm"} = {}

Constructed == pc \in {"app", "failed"}
StructureError == pc = "failed" /\ exc.type = "ValueError"

(***************************************************************************)
(* C1.  Constructing an Application fails with the structure error         *)
(* (ValueError) for every document that is not a mapping and for every     *)
(* mapping whose spec section holds neither `sources` nor `source`, a      *)
(* mapping without `spec` included.                                        *)
(* The code raises TypeError, not ValueError, when `spec` is None or a     *)
(* number: TLC finds this formula violated.                                *)
(***************************************************************************)
HoldsNoSourceKey(d) == d.spec.mem \cap {"sources", "source"} = {}

C1_StructureErrorWithoutSources ==
    (Constructed /\ (doc.t # "dict" \/ HoldsNoSourceKey(doc))) => StructureError

(***************************************************************************)
(* C2.  As claimed: construction fails with the structure error whenever   *)
(* `spec.sources` is present and not a sequence, and whenever              *)
(* `spec.source` is present and not a mapping, whatever the other keys.    *)
(* TLC finds this violated: a non-mapping `source` beside a `sources` list *)
(* is accepted.                                                            *)
(***************************************************************************)
SourcesNotList(d) == d.spec.t = "dict" /\ "sources" \in d.spec.mem /\ d.spec.sources.t # "list"
SourceNotDict(d) == d.spec.t = "dict" /\ "source" \in d.spec.mem /\ d.spec.source.t # "dict"

C2_Original ==
    (Constructed /\ doc.t = "dict" /\ (SourcesNotList(doc) \/ SourceNotDict(doc)))
        => StructureError

(***************************************************************************)
(* C2, amended.  Construction fails with the structure error whenever      *)
(* `spec.sources` is present and not a sequence (whatever `spec.source`    *)
(* is), and whenever `spec.source` is present and not a mapping while      *)
(* `spec.sources` is absent; when `spec.sources` is a sequence,            *)
(* construction succeeds whatever `spec.source` holds.                     *)
(***************************************************************************)
C2_StructureErrorOnBadSourceTypes ==
    (Constructed /\ doc.t = "dict" /\ doc.spec.t = "dict") =>
        /\ SourcesNotList(doc) => StructureError
        /\ (SourceNotDict(doc) /\ "sources" \notin doc.spec.mem) => StructureError
        /\ ("sources" \in doc.spec.mem /\ doc.spec.sources.t = "list") => pc = "app"

\* a non-sequence `sources` beside a well-formed `source` mapping was refused
C2_Witness ==
    /\ StructureError
    /\ SourcesNotList(doc)
    /\ "source" \in doc.spec.mem
    /\ doc.spec.source.t = "dict"

(***************************************************************************)
(* The validation rules of the design, stated on the normalized sources.   *)
(***************************************************************************)
Srcs == Sources(data)
ChartIdx == {i \in 1..Len(Srcs) : ChartShaped(Srcs[i])}
RefKeyIdx == {i \in 1..Len(Srcs) : "ref" \in Srcs[i].keys}

\* a reference Source with a ref name and a repoURL, both non-empty
UsableRef(s) ==
    /\ {"ref", "repoURL"} \subseteq s.keys
    /\ s.ref # <<>>
    /\ s.repoURL # <<>>

UsableRefNames == {Srcs[i].ref : i \in {j \in 1..Len(Srcs) : UsableRef(Srcs[j])}}

\* the valueFiles of the helm section the Application reads
AppValueFiles ==
    LET H == {i \in 1..Len(Srcs) : "helm" \in Srcs[i].keys}
    IN  IF H = {} THEN <<>>
        ELSE Srcs[CHOOSE i \in H : \A j \in H : i <= j].helm.valueFiles

\* vf is "$" name "/" path with the name one of `names`
RefersTo(vf, names) ==
    \E i \in 2..Len(vf) :
        /\ vf[1] = "$"
        /\ vf[i] = "/"
        /\ \A k \in 2..(i - 1) : vf[k] # "/"
        /\ SubSeq(vf, 2, i - 1) \in names

Rule1Violated == data.kind # "Application"
Rule2Violated == \E i, j \in RefKeyIdx : i # j /\ Srcs[i].ref = Srcs[j].ref
Rule3Violated == \E i \in 1..Len(Srcs) : ~ChartShaped(Srcs[i]) /\ ~RefShaped(Srcs[i])
Rule4Violated == ChartIdx = {}
Rule5Violated == Cardinality(ChartIdx) > 1
Rule6Violated ==
    /\ UsableRefNames # {}
    /\ \E k \in 1..Len(AppValueFiles) : ~RefersTo(AppValueFiles[k], UsableRefNames)

ViolatedRules ==
    {n \in 1..6 : \/ n = 1 /\ Rule1Violated
                  \/ n = 2 /\ Rule2Violated
                  \/ n = 3 /\ Rule3Violated
                  \/ n = 4 /\ Rule4Violated
                  \/ n = 5 /\ Rule5Violated
                  \/ n = 6 /\ Rule6Violated}

\* the rule a validate() outcome reports; 0 for success
RuleOf(kind) ==
    CASE kind = "ok" -> 0
      [] kind = "invalid_kind" -> 1
      [] kind = "duplicate_refs" -> 2
      [] kind = "invalid_source" -> 3
      [] kind = "no_helm_chart" -> 4
      [] kind = "multiple_charts" -> 5
      [] kind \in {"undefined_ref", "ref_path_expected", "ref_prefix_required"} -> 6

Validated == pc = "app" /\ op = "validate"

(***************************************************************************)
(* C3.  validate() is fail-fast with a fixed priority: the one violation   *)
(* it reports is that of the lowest-numbered violated rule among (1) kind, *)
(* (2) duplicate refs, (3) a Source of no shape, (4) no chart-bearing      *)
(* Source, (5) several chart-bearing Sources, (6) valueFiles inconsistent  *)
(* with the reference sources; it succeeds when no rule is violated.       *)
(***************************************************************************)
C3_LowestViolatedRuleReported ==
    Validated =>
        IF ViolatedRules = {}
        THEN vres.kind = "ok"
        ELSE /\ RuleOf(vres.kind) \in ViolatedRules
             /\ \A n \in ViolatedRules : RuleOf(vres.kind) <= n

\* rules 2, 3 and 4 are violated at once, and rule 2 is the one reported
C3_Witness ==
    /\ Validated
    /\ {2, 3, 4} \subseteq ViolatedRules
    /\ 1 \notin ViolatedRules
    /\ vres.kind = "duplicate_refs"

(***************************************************************************)
(* C4.  Whenever validate() returns successfully: kind is `Application`,   *)
(* exactly one Source is chart-bearing (Helm-repo/OCI or Git shape), every *)
(* other Source is of reference shape, and the ref names of the reference  *)
(* Sources are pairwise distinct.                                          *)
(***************************************************************************)
C4_ValidatedApplicationInvariants ==
    (Validated /\ vres.kind = "ok") =>
        /\ data.kind = "Application"
        /\ Cardinality(ChartIdx) = 1
        /\ \A i \in 1..Len(Srcs) : i \notin ChartIdx => RefShaped(Srcs[i])
        /\ \A i, j \in 1..Len(Srcs) :
               (RefShaped(Srcs[i]) /\ RefShaped(Srcs[j]) /\ i # j)
                   => Srcs[i].ref # Srcs[j].ref

\* validate() succeeded on a chart Source together with a reference Source
C4_Witness ==
    /\ Validated
    /\ vres.kind = "ok"
    /\ \E i \in 1..Len(Srcs) : RefShaped(Srcs[i])

(***************************************************************************)
(* C5.  For an Application of kind `Application` with no duplicate refs    *)
(* and no Source of invalid shape in which two or more Sources are         *)
(* chart-bearing, validate() fails and the violation lists the positions   *)
(* (0-based, in the normalized sequence, ascending) of all of them.        *)
(***************************************************************************)
C5_MultipleChartsListsAllIndices ==
    (Validated /\ ~Rule1Violated /\ ~Rule2Violated /\ ~Rule3Violated
               /\ Cardinality(ChartIdx) >= 2) =>
        /\ vres.kind = "multiple_charts"
        /\ Len(vres.indices) = Cardinality(ChartIdx)
        /\ {vres.indices[k] : k \in 1..Len(vres.indices)} = {i - 1 : i \in ChartIdx}
        /\ \A k \in 1..(Len(vres.indices) - 1) : vres.indices[k] < vres.indices[k + 1]

\* two chart-bearing Sources of different shapes were both listed
C5_Witness ==
    /\ Validated
    /\ vres.kind = "multiple_charts"
    /\ Len(vres.indices) >= 2
    /\ \E i, j \in ChartIdx : HelmRepoShaped(Srcs[i]) /\ GitShaped(Srcs[j])

(***************************************************************************)
(* C6.  For an Application of kind `Application`, validate() fails with    *)
(* the duplicate-ref violation exactly when two Sources declare the same   *)
(* `ref` name, and the violation names every duplicated ref name.          *)
(***************************************************************************)
DuplicatedRefNames ==
    {Srcs[i].ref : i \in {k \in RefKeyIdx : \E j \in RefKeyIdx : j # k /\ Srcs[j].ref = Srcs[k].ref}}

C6_DuplicateRefsReported ==
    (Validated /\ data.kind = "Application") =>
        /\ vres.kind = "duplicate_refs" <=> Rule2Violated
        /\ vres.kind = "duplicate_refs" =>
               /\ SeqToSet(vres.names) = DuplicatedRefNames
               /\ Len(vres.names) = Cardinality(DuplicatedRefNames)

\* a chart Source and a reference Source both declaring ref "v" were reported
C6_Witness ==
    /\ Validated
    /\ vres.kind = "duplicate_refs"
    /\ vres.names = <<NameV>>
    /\ \E i \in RefKeyIdx : ~RefShaped(Srcs[i])

(***************************************************************************)
(* C7.  As claimed: when at least one reference source is declared and     *)
(* valueFiles is non-empty, validate() fails if some valueFiles entry does *)
(* not start with `$`, has no `/` after the name, or names a ref that is   *)
(* not a declared reference source.  TLC finds this violated: a declared   *)
(* reference Source without a repoURL (or with an empty ref name) does not *)
(* switch the check on.                                                    *)
(***************************************************************************)
DeclaredRefNames == {Srcs[i].ref : i \in {j \in 1..Len(Srcs) : RefShaped(Srcs[j])}}

MalformedRef(s) == "ref" \in s.keys /\ ~UsableRef(s)

\* name -> the repoURL of the last usable reference Source of that name
ExpectedRefSources ==
    {[name |-> Srcs[i].ref, val |-> Srcs[i].repoURL] :
        i \in {k \in 1..Len(Srcs) :
                 /\ UsableRef(Srcs[k])
                 /\ \A j \in (k + 1)..Len(Srcs) :
                        UsableRef(Srcs[j]) => Srcs[j].ref # Srcs[k].ref}}

RefSourcesOmitMalformed ==
    (pc = "app" /\ op = "get_all_ref_sources") =>
        /\ SeqToSet(refs) = ExpectedRefSources
        /\ Len(refs) = Cardinality(UsableRefNames)

C9_ShapesMutuallyExclusive ==
    pc = "classified" =>
        /\ ~(shape.helm_repo /\ shape.helm_git)
        /\ ~(shape.helm_repo /\ shape.ref)
        /\ ~(shape.helm_git /\ shape.ref)
        /\ shape.helm_oci => shape.helm_repo

\* a Source carrying chart and helm was classified Helm-repo and OCI only
C9_Witness ==
    /\ pc = "classified"
    /\ {"chart", "helm"} \subseteq src.keys
    /\ shape.helm_repo /\ shape.helm_oci /\ ~shape.helm_git /\ ~shape.ref

(***************************************************************************)
(* C10.  A Source is classified Helm-OCI exactly when it has `chart`, has  *)
(* neither `path` nor `ref`, and has a `repoURL` whose value does not      *)
(* begin with http:// or https://; a Source without `repoURL` is not OCI.  *)
(* The code reads a missing repoURL as "" and answers OCI: TLC finds this  *)
(* formula violated.                                                       *)
(***************************************************************************)
C10_OciNeedsRepoURL ==
    pc = "classified" =>
        (shape.helm_oci <=>
            /\ "chart" \in src.keys
            /\ "path" \notin src.keys
            /\ "ref" \notin src.keys
            /\ "repoURL" \in src.keys
            /\ ~StartsWith(src.repoURL, HttpPrefix)
            /\ ~StartsWith(src.repoURL, HttpsPrefix))

(***************************************************************************)
(* C11.  On every Application on which validate() succeeds,                *)
(* get_chart_source() returns the unique chart-bearing Source, and the     *)
(* helm accessors (release name, skipCrds, valueFiles) return what the     *)
(* `helm` section of that same Source holds (the defaults "", false, []    *)
(* when it has none); on an Application with no Source carrying `chart` or *)
(* `path`, get_chart_source() returns None.                                *)
(***************************************************************************)
ValidateSucceeds == pc = "app" /\ validate(data).kind = "ok"

\* the one chart-shaped Source, and its helm section
TheChart == Srcs[CHOOSE i \in ChartIdx : TRUE]
HelmOfTheChart == IF "helm" \in TheChart.keys THEN TheChart.helm ELSE NoHelm

C11_AccessorsReadTheChartSource ==
    /\ ValidateSucceeds =>
           /\ op = "get_chart_source" => ret.found /\ ret.source = TheChart
           /\ op = "get_helm_release_name" => ret.name = HelmOfTheChart.releaseName
           /\ op = "get_helm_skip_crds" => ret.flag = HelmOfTheChart.skipCrds
           /\ op = "get_helm_value_files" => ret.files = HelmOfTheChart.valueFiles
    /\ (/\ pc = "app"
        /\ op = "get_chart_source"
        /\ \A i \in 1..Len(Srcs) : Srcs[i].keys \cap {"chart", "path"} = {})
           => ~ret.found

\* a Git-based chart declared after a reference Source was returned
C11_Witness ==
    /\ ValidateSucceeds
    /\ op = "get_chart_source"
    /\ Len(Srcs) = 2
    /\ RefShaped(Srcs[1])
    /\ GitShaped(Srcs[2])
    /\ ret.found
    /\ ret.source = Srcs[2]

(***************************************************************************)
(* C12.  build_ref_mapping returns the empty mapping whenever ref_sources  *)
(* is empty, for every override (empty or not) and every workdir, without  *)
(* a version-control lookup and without failing.                           *)
(***************************************************************************)
Built == pc = "built"

C12_NoRefSourcesNoMapping ==
    (Built /\ margs.ref_sources = <<>>) =>
        /\ mres.kind = "ok"
        /\ mres.mapping = <<>>
        /\ mres.lookups = 0

\* an override was supplied and workdir is outside any working tree
C12_Witness ==
    /\ Built
    /\ margs.ref_sources = <<>>
    /\ Len(margs.ref_map_override) = 2
    /\ margs.workdir.rc # 0
    /\ mres.kind = "ok"
    /\ mres.mapping = <<>>

(***************************************************************************)
(* C13.  When ref_sources and the override are both non-empty,             *)
(* build_ref_mapping returns a mapping with the override's keys, each      *)
(* mapped to the override's path (as a Path), whether or not the           *)
(* override's names are declared reference sources and whether or not      *)
(* every declared reference source is covered; no version-control lookup   *)
(* is made.                                                                *)
(***************************************************************************)
C13_OverrideUsedVerbatim ==
    (Built /\ margs.ref_sources # <<>> /\ margs.ref_map_override # <<>>) =>
        /\ mres.kind = "ok"
        /\ DictKeys(mres.mapping) = DictKeys(margs.ref_map_override)
        /\ \A i \in 1..Len(mres.mapping) :
               mres.mapping[i].val = Path(margs.ref_map_override[i].val)
        /\ mres.lookups = 0

\* the override names only `o` while the one declared reference source is `v`
C13_Witness ==
    /\ Built
    /\ DictKeys(margs.ref_sources) = <<NameV>>
    /\ DictKeys(margs.ref_map_override) = <<NameO>>
    /\ mres.kind = "ok"
    /\ mres.mapping = <<[name |-> NameO, val |-> <<"/", "q">>]>>

(***************************************************************************)
(* C14.  When no override is supplied and two or more reference sources    *)
(* are declared, compute_helm_args on a validated Application fails with   *)
(* the error that names every declared reference source, also when         *)
(* valueFiles is empty, and before any version-control lookup.  Read with  *)
(* "reference source" as the data model defines it (a Source with `ref`    *)
(* and none of chart, path, helm), TLC finds this violated: a reference    *)
(* Source without repoURL does not count.                                  *)
(***************************************************************************)
Computed == pc = "app" /\ op = "compute_helm_args"

AmbiguityError ==
    /\ bres.exc = "ClickException"
    /\ bres.kind = "multiple_refs"
    /\ bres.lookups = 0
    /\ bres.args = <<>>

C15_SingleRefMapsToWorkingTreeRoot ==
    (/\ Computed
     /\ validate(data).kind = "ok"
     /\ margs.ref_map_override = <<>>
     /\ Cardinality(UsableRefNames) = 1)
        => IF margs.workdir.rc = 0
           THEN /\ bres.mapped
                /\ Len(bres.mapping) = 1
                /\ bres.mapping[1].name \in UsableRefNames
                /\ bres.mapping[1].val = margs.workdir.top
                /\ bres.lookups = 1
           ELSE /\ bres.exc = "ClickException"
                /\ bres.kind = "not_a_git_repository"
                /\ ~bres.mapped
                /\ bres.mapping = <<>>
                /\ bres.args = <<>>

(***************************************************************************)
(* C16.  Value-file resolution is order-preserving and one-to-one: when    *)
(* compute_helm_args returns, its list is the release-name pair, then      *)
(* `--skip-crds` if skipCrds is set, then one `-f`, path pair per          *)
(* valueFiles entry in declaration order, the i-th path being              *)
(* mapping[name_i] joined with the relative path of the i-th entry.        *)
(***************************************************************************)
\* the name and the relative path of the entry "$" name "/" path
FirstSlash(vf) == CHOOSE k \in 2..Len(vf) : vf[k] = "/" /\ \A j \in 2..(k - 1) : vf[j] # "/"
NameOf(vf) == SubSeq(vf, 2, FirstSlash(vf) - 1)
SuffixOf(vf) == SubSeq(vf, FirstSlash(vf) + 1, Len(vf))

\* the local path the mapping built by the call gives to a name
MappedTo(name) ==
    bres.mapping[CHOOSE i \in 1..Len(bres.mapping) : bres.mapping[i].name = name].val

SkipCrdsSet == HelmOfTheChart.skipCrds

C16_ValueFilesResolvedInOrder ==
    (Computed /\ bres.exc = "none") =>
        LET base == IF SkipCrdsSet THEN 3 ELSE 2
            n == Len(AppValueFiles)
        IN  /\ Len(bres.args) = base + 2 * n
            /\ \A i \in 1..n :
                   /\ bres.args[base + 2 * i - 1] = Arg("-f")
                   /\ bres.args[base + 2 * i] =
                          PathArg(MappedTo(NameOf(AppValueFiles[i]))
                                      \o <<"/">> \o SuffixOf(AppValueFiles[i]))

\* two entries of different refs, after the CRD-skip flag
C16_Witness ==
    /\ Computed
    /\ bres.exc = "none"
    /\ SkipCrdsSet
    /\ AppValueFiles = << <<"$", "o", "/", "b">>, <<"$", "v", "/", "a">> >>
    /\ Len(bres.args) = 7
    /\ bres.args[5] = PathArg(<<"/", "q", "/", "b">>)
    /\ bres.args[7] = PathArg(<<"/", "p", "/", "a">>)

(***************************************************************************)
(* C17.  apply_ref_mapping_to_value_files fails with the malformed-        *)
(* reference error, identifying the offending entry and returning no list, *)
(* for every entry that is not `$`, a name, `/`, a relative path: an entry *)
(* without the `$` prefix, without a `/` after the name, with an empty     *)
(* name (`$/x`) or with an empty relative path (`$name/`).  The code tests *)
(* the prefix and the presence of a `/` only: TLC finds the formula        *)
(* violated on `$v/` and on `$/a`.                                         *)
(***************************************************************************)
Applied == pc = "applied"

\* "$", a non-empty name without "/", "/", a non-empty path
WellFormed(vf) ==
    \E k \in 3..(Len(vf) - 1) :
        /\ vf[1] = "$"
        /\ vf[k] = "/"
        /\ \A j \in 2..(k - 1) : vf[j] # "/"

MalformedReferenceError(vf) ==
    /\ mres.kind \in {"mapping_prefix_expected", "ref_path_expected"}
    /\ mres.vf = vf
    /\ mres.files = <<>>

\* the entries before the i-th are well formed and name a mapped reference
ReachesEntry(i) ==
    \A j \in 1..(i - 1) :
        /\ WellFormed(margs.value_files[j])
        /\ DictHas(mres.mapping, NameOf(margs.value_files[j]))

C17_MalformedEntriesRejected ==
    Applied =>
        \A i \in 1..Len(margs.value_files) :
            (ReachesEntry(i) /\ ~WellFormed(margs.value_files[i]))
                => MalformedReferenceError(margs.value_files[i])

(***************************************************************************)
(* C18.  For a well-formed entry `$name/path` whose name is not a key of   *)
(* the mapping actually built (for example because the override supplies   *)
(* only other names than the declared reference source), compute_helm_args *)
(* fails with the error that names both the reference and the full entry,  *)
(* and returns no argument list; this happens on Applications on which     *)
(* validate() succeeds.                                                    *)
(***************************************************************************)
UnmappedReferenceError(name, vf) ==
    /\ bres.exc = "ClickException"
    /\ bres.kind = "ref_not_in_mapping"
    /\ bres.ref = name
    /\ bres.vf = vf
    /\ bres.args = <<>>

\* the entries before the i-th are well formed and name a mapped reference
ResolvesBefore(i) ==
    \A j \in 1..(i - 1) :
        /\ WellFormed(AppValueFiles[j])
        /\ DictHas(bres.mapping, NameOf(AppValueFiles[j]))

C18_UnmappedReferenceRejected ==
    (Computed /\ validate(data).kind = "ok" /\ bres.mapped) =>
        \A i \in 1..Len(AppValueFiles) :
            (/\ ResolvesBefore(i)
             /\ WellFormed(AppValueFiles[i])
             /\ ~DictHas(bres.mapping, NameOf(AppValueFiles[i])))
                => UnmappedReferenceError(NameOf(AppValueFiles[i]), AppValueFiles[i])

\* `v` and `o` are declared, the override maps `o` only, and the second entry
\* is the one that fails
C18_Witness ==
    /\ Computed
    /\ validate(data).kind = "ok"
    /\ UsableRefNames = {NameV, NameO}
    /\ DictKeys(bres.mapping) = <<NameO>>
    /\ AppValueFiles = << <<"$", "o", "/", "b">>, <<"$", "v", "/", "a">> >>
    /\ UnmappedReferenceError(NameV, <<"$", "v", "/", "a">>)

(***************************************************************************)
(* C19.  Every argument list compute_helm_args returns begins with         *)
(* `--release-name` and the release name: the declared helm releaseName    *)
(* when it is non-empty, the Application's metadata name otherwise.  For   *)
(* an Application with exactly one chart Source, no reference Source,      *)
(* valueFiles empty or absent and skipCrds false, the call returns and the *)
(* list is exactly these two elements.                                     *)
(***************************************************************************)
ExpectedReleaseName ==
    IF HelmOfTheChart.releaseName # "" THEN HelmOfTheChart.releaseName ELSE data.name

ChartOnly ==
    /\ validate(data).kind = "ok"
    /\ RefKeyIdx = {}
    /\ AppValueFiles = <<>>
    /\ ~SkipCrdsSet

C19_ReleaseNameFirst ==
    Computed =>
        /\ bres.exc = "none" =>
               /\ Len(bres.args) >= 2
               /\ bres.args[1] = Arg("--release-name")
               /\ bres.args[2] = Arg(ExpectedReleaseName)
        /\ ChartOnly =>
               /\ bres.exc = "none"
               /\ Len(bres.args) = 2

\* a declared releaseName is used, and the list is the pair alone
C19_Witness ==
    /\ Computed
    /\ ChartOnly
    /\ HelmOfTheChart.releaseName = "rel"
    /\ bres.args = <<Arg("--release-name"), Arg("rel")>>

(***************************************************************************)
(* C20.  The argument list compute_helm_args returns contains              *)
(* `--skip-crds` exactly once, right after the release-name pair and       *)
(* before any `-f` pair, when the chart Source's helm skipCrds is true,    *)
(* and does not contain it when skipCrds is false or absent.               *)
(***************************************************************************)
SkipCrdsPositions == {i \in 1..Len(bres.args) : bres.args[i] = Arg("--skip-crds")}

C20_SkipCrdsFlagOnceAfterReleaseName ==
    (Computed /\ bres.exc = "none") =>
        SkipCrdsPositions = IF SkipCrdsSet THEN {3} ELSE {}

\* the flag stands between the release-name pair and two `-f` pairs
C20_Witness ==
    /\ Computed
    /\ bres.exc = "none"
    /\ SkipCrdsSet
    /\ SkipCrdsPositions = {3}
    /\ Len(bres.args) = 7
    /\ bres.args[4] = Arg("-f")
    /\ bres.args[6] = Arg("-f")

(***************************************************************************)
(* C21.  compute_helm_args classifies its failures by stage: on an         *)
(* Application for which validate() fails it ends in an assertion failure  *)
(* (never a ClickException, never a result); on a validated Application    *)
(* every failure of build_ref_mapping or of                                *)
(* apply_ref_mapping_to_value_files (ambiguous, not a repository,          *)
(* malformed, unmapped) leaves it as a ClickException that carries the     *)
(* error raised.                                                           *)
(***************************************************************************)
ResolverErrors ==
    {"multiple_refs", "not_a_git_repository", "mapping_prefix_expected",
     "ref_path_expected", "ref_not_in_mapping"}

\* what build_ref_mapping answers to the arguments of the call
MappingOfCall ==
    build_ref_mapping(get_all_ref_sources(data), margs.workdir, margs.ref_map_override)

\* what apply_ref_mapping_to_value_files answers to that mapping
FilesOfCall ==
    apply_ref_mapping_to_value_files(get_helm_value_files(data), MappingOfCall.mapping)

C21_FailuresClassifiedByStage ==
    Computed =>
        IF ViolatedRules # {}
        THEN /\ bres.exc = "AssertionError"
             /\ bres.args = <<>>
             /\ bres.kind = validate(data).kind
        ELSE /\ bres.exc \in {"none", "ClickException"}
             /\ bres.exc = "none" => bres.kind = "ok"
             /\ bres.exc = "ClickException" =>
                    /\ bres.kind \in ResolverErrors
                    /\ bres.args = <<>>
             /\ MappingOfCall.kind # "ok" =>
                    /\ bres.exc = "ClickException"
                    /\ bres.kind = MappingOfCall.kind
                    /\ bres.names = MappingOfCall.names
             /\ (MappingOfCall.kind = "ok" /\ Len(get_helm_value_files(data)) > 0
                    /\ FilesOfCall.kind # "ok") =>
                    /\ bres.exc = "ClickException"
                    /\ bres.kind = FilesOfCall.kind
                    /\ bres.vf = FilesOfCall.vf
                    /\ bres.ref = FilesOfCall.ref

\* an Application without a chart Source ended the call in the assertion
C21_Witness ==
    /\ Computed
    /\ ViolatedRules = {4}
    /\ bres.exc = "AssertionError"
    /\ bres.kind = "no_helm_chart"

(***************************************************************************)
(* C25.  One compute_helm_args call performs at most one version-control   *)
(* root lookup: exactly one when the override is empty and exactly one     *)
(* reference source is declared (also when valueFiles is empty), none when *)
(* the override is non-empty, when no reference source is declared, or     *)
(* when more than one is declared.  Read with "reference source" as the    *)
(* data model defines it (a Source with `ref` and none of chart, path,     *)
(* helm), TLC finds this violated: build_ref_mapping counts the entries of *)
(* get_all_ref_sources(), which leave out a reference Source without       *)
(* repoURL.                                                                *)
(***************************************************************************)
DeclaredRefCount == Cardinality({i \in 1..Len(Srcs) : RefShaped(Srcs[i])})

C27_ValueFilesWithoutRefSourcesFail ==
    (/\ Computed
     /\ validate(data).kind = "ok"
     /\ get_all_ref_sources(data) = <<>>
     /\ Len(get_helm_value_files(data)) > 0)
        => /\ bres.exc = "ClickException"
           /\ bres.args = <<>>
           /\ bres.mapping = <<>>
           /\ bres.lookups = 0
           /\ bres.kind \in {"mapping_prefix_expected", "ref_path_expected",
                              "ref_not_in_mapping"}
           /\ bres.kind = ResolveValueFile(get_helm_value_files(data)[1], <<>>).kind

\* a well-formed entry whose name the override maps, and no reference source
C27_Witness ==
    /\ Computed
    /\ ViolatedRules = {}
    /\ UsableRefNames = {}
    /\ Len(AppValueFiles) > 0
    /\ WellFormed(AppValueFiles[1])
    /\ \E i \in 1..Len(margs.ref_map_override) :
           margs.ref_map_override[i].name = NameOf(AppValueFiles[1])
    /\ bres.exc = "ClickException"
    /\ bres.kind = "ref_not_in_mapping"

(***************************************************************************)
(* C28.  Validation implies resolvability: on an Application on which      *)
(* validate() succeeds and whose get_all_ref_sources() is non-empty,       *)
(* compute_helm_args returns a list of length                              *)
(* 2 + (1 if skipCrds) + 2 * len(valueFiles) whenever the override is      *)
(* non-empty and holds every declared reference name, or the override is   *)
(* empty, exactly one reference source is declared and workdir lies inside *)
(* a working tree.                                                         *)
(***************************************************************************)
OverrideNames ==
    {margs.ref_map_override[i].name : i \in 1..Len(margs.ref_map_override)}

C28_ValidatedAndMappedBuilds ==
    (/\ Computed
     /\ validate(data).kind = "ok"
     /\ UsableRefNames # {}
     /\ \/ margs.ref_map_override # <<>> /\ UsableRefNames \subseteq OverrideNames
        \/ /\ margs.ref_map_override = <<>>
           /\ Cardinality(UsableRefNames) = 1
           /\ margs.workdir.rc = 0)
        => /\ bres.exc = "none"
           /\ Len(bres.args) = 2 + (IF SkipCrdsSet THEN 1 ELSE 0) + 2 * Len(AppValueFiles)

\* two value files resolved through an override that names the reference
C28_Witness ==
    /\ Computed
    /\ ViolatedRules = {}
    /\ UsableRefNames # {}
    /\ UsableRefNames \subseteq OverrideNames
    /\ Len(AppValueFiles) = 2
    /\ bres.exc = "none"
    /\ Len(bres.args) \in {6, 7}

\* no override, one reference source, workdir inside a working tree
C28_WitnessGitRoot ==
    /\ Computed
    /\ ViolatedRules = {}
    /\ margs.ref_map_override = <<>>
    /\ Cardinality(UsableRefNames) = 1
    /\ margs.workdir.rc = 0
    /\ Len(AppValueFiles) > 0
    /\ bres.exc = "none"

C22_WitnessSuccess ==
    /\ pc = "app"
    /\ op = "validate"
    /\ hist.calls = 2
    /\ hist.seen = {"validate"}
    /\ vres.kind = "ok"

(***************************************************************************)
(* C23.  After construction the Application is immutable and its document  *)
(* is not exposed: no call changes _data, and nothing the caller holds     *)
(* (the document it handed to the constructor, a value an accessor         *)
(* returned) can be written to so that a later accessor or validate() call *)
(* returns something else than on the Application as constructed.  With a  *)
(* client that writes to the dict it passed in, or to the `helm` dict of   *)
(* the Source get_chart_source() returned, TLC finds this violated.        *)
(***************************************************************************)
AsConstructed == ArgocdApplication(doc).data

C23_StateNotExposed ==
    pc = "app" =>
        /\ data = AsConstructed
        /\ op = "validate" => vres = validate(AsConstructed)
        /\ op = "get_all_ref_sources" => refs = get_all_ref_sources(AsConstructed)
        /\ (op = "get_chart_source" /\ ~ret.found) => get_chart_source(AsConstructed) = NoSource
        /\ op = "get_helm_release_name" => ret.name = get_helm_release_name(AsConstructed)
        /\ op = "get_helm_skip_crds" => ret.flag = get_helm_skip_crds(AsConstructed)
        /\ op = "get_helm_value_files" => ret.files = get_helm_value_files(AsConstructed)

(***************************************************************************)
(* C24.  Legacy normalization is an equivalence: an Application built from *)
(* a document with a single `spec.source` mapping S and no `spec.sources`  *)
(* gives, for every accessor, for validate() and for compute_helm_args,    *)
(* the same result as an Application built from the same document with     *)
(* `spec.sources: [S]`; the lifting is done at construction and later      *)
(* calls neither repeat nor undo it.                                       *)
(***************************************************************************)
Legacy ==
    /\ doc.t = "dict"
    /\ doc.spec.t = "dict"
    /\ doc.spec.mem = {"source"}
    /\ doc.spec.source.t = "dict"

\* the same document with `spec.sources: [S]`, and the Application built from it
Modern ==
    MkDoc("dict", doc.kind, doc.name,
          MkSpec("dict", {"sources"}, MkSourcesVal("list", <<doc.spec.source.val>>),
                 NoSourceVal))

ModernApp == ArgocdApplication(Modern)

C24_LegacySourceEquivalent ==
    (Legacy /\ pc # "start") =>
        /\ exc = ModernApp.exc
        /\ pc = "app"
        /\ Sources(data) = <<doc.spec.source.val>>
        /\ Sources(data) = Sources(ModernApp.data)
        /\ op = "validate" => vres = validate(ModernApp.data)
        /\ op = "get_all_ref_sources" => refs = get_all_ref_sources(ModernApp.data)
        /\ op = "compute_helm_args" =>
               bres = compute_helm_args(ModernApp.data, margs.workdir, margs.ref_map_override)
        /\ op = "get_chart_source" =>
               /\ ret.source = get_chart_source(ModernApp.data)
               /\ ret.found = (get_chart_source(ModernApp.data) # NoSource)
        /\ op = "get_helm_release_name" => ret.name = get_helm_release_name(ModernApp.data)
        /\ op = "get_helm_skip_crds" => ret.flag = get_helm_skip_crds(ModernApp.data)
        /\ op = "get_helm_value_files" => ret.files = get_helm_value_files(ModernApp.data)

\* a legacy chart Source: the third call builds the arguments of the release
C24_Witness ==
    /\ Legacy
    /\ pc = "app"
    /\ hist.calls = 2
    /\ op = "compute_helm_args"
    /\ bres.exc = "none"
    /\ bres.args = <<Arg("--release-name"), Arg("rel"), Arg("--skip-crds")>>

\* a legacy Source that has a path and no helm is no chart (validate() fails)
C24_WitnessPathOnly ==
    /\ Legacy
    /\ pc = "app"
    /\ op = "validate"
    /\ vres.kind = "invalid_source"

(***************************************************************************)
(* C26.  In render_manifests the steps run in the fixed order load,        *)
(* validate, chart fetch, argument build, templating: download_chart is    *)
(* called only after validate() has succeeded, `helm template` is run only *)
(* after validate(), download_chart and compute_helm_args have all         *)
(* succeeded, and when a step fails no later step runs and no manifest     *)
(* file is written.                                                        *)
(***************************************************************************)
RenderOrder == <<"load", "validate", "download", "build", "template">>

Entered(step) == \E i \in 1..Len(run.steps) : run.steps[i] = step

StepFailed(step) ==
    /\ Entered(step)
    /\ CASE step = "load" -> ~run.readable \/ exc.type # "none"
          [] step = "validate" -> vres.kind # "ok"
          [] step = "download" -> run.fetch = "error"
          [] step = "build" -> bres.exc # "none"
          [] step = "template" -> run.helm = "error"

C26_RenderStepsInOrder ==
    run.pc # "none" =>
        /\ Len(run.steps) <= Len(RenderOrder)
        /\ run.steps = SubSeq(RenderOrder, 1, Len(run.steps))
        /\ Entered("download") => vres.kind = "ok"
        /\ Entered("template") =>
               /\ vres.kind = "ok"
               /\ run.fetch = "ok"
               /\ bres.exc = "none"
        /\ \A i \in 1..Len(RenderOrder) :
               StepFailed(RenderOrder[i]) =>
                   /\ Len(run.steps) = i
                   /\ run.pc = "failed"
                   /\ ~run.written
        /\ run.written => (run.pc = "done" /\ run.helm = "ok")

\* the chart was fetched, then compute_helm_args failed: no helm, no manifest
C26_Witness ==
    /\ run.pc = "failed"
    /\ run.steps = <<"load", "validate", "download", "build">>
    /\ run.fetch = "ok"
    /\ bres.exc = "ClickException"
    /\ ~run.written

\* every step succeeded and the manifest was written
C26_WitnessWritten ==
    /\ run.pc = "done"
    /\ run.steps = RenderOrder
    /\ run.written

(***************************************************************************)
(* C29.  For a Git-based chart Source the revision handed to the git       *)
(* checkout is the declared targetRevision, unchanged; leading `v`s are    *)
(* stripped only from the version of a Helm-repo or OCI chart, in the      *)
(* standalone script's extract_chart_info and in the package's             *)
(* download_chart alike.  The package strips the revision of a Git chart   *)
(* too: TLC finds the formula violated.                                    *)
(***************************************************************************)
C29_GitRevisionKeptAsDeclared ==
    run.pc \notin {"none", "info"} =>
        /\ GitShaped(run.source) =>
               /\ run.is_git
               /\ run.version = GetTargetRevision(run.source)
        /\ HelmRepoShaped(run.source) =>
               /\ ~run.is_git
               /\ run.version = LStrip(GetTargetRevision(run.source), "v")
        /\ run.log # <<>> => run.revision = GetTargetRevision(run.source)

(***************************************************************************)
(* C30.  checkout_git_revision follows a bounded retry protocol: it runs   *)
(* the checkout once; only if that fails it fetches from origin once and   *)
(* then runs the checkout once more; it fails if the fetch fails (without  *)
(* a second checkout) or if the second checkout fails; no run makes more   *)
(* than two checkouts or more than one fetch, and every run ends.          *)
(***************************************************************************)
Co(rc) == [cmd |-> "checkout", rc |-> rc]
Fe(rc) == [cmd |-> "fetch", rc |-> rc]

\* the git commands of a run that returned, and of a run that raised
ReturnedLogs == {<<Co(0)>>, <<Co(1), Fe(0), Co(0)>>}
RaisedLogs == {<<Co(1), Fe(1)>>, <<Co(1), Fe(0), Co(1)>>}

IsPrefix(s, l) == Len(s) <= Len(l) /\ s = SubSeq(l, 1, Len(s))

Count(cmd) == Cardinality({i \in 1..Len(run.log) : run.log[i].cmd = cmd})

CheckoutProtocol ==
    /\ \E l \in ReturnedLogs \cup RaisedLogs : IsPrefix(run.log, l)
    /\ Count("checkout") <= 2
    /\ Count("fetch") <= 1
    /\ (run.pc = "symlink" \/ run.err = "symlink" \/ (run.pc = "done" /\ run.is_git))
           => run.log \in ReturnedLogs
    /\ run.err = "checkout" => (run.pc = "failed" /\ run.log \in RaisedLogs)
    /\ run.pc = "checkout" => run.err = "none"

C30_BoundedCheckoutRetry ==
    /\ []CheckoutProtocol
    /\ (run.pc = "checkout") ~> (run.pc # "checkout")

\* the first checkout failed, the fetch succeeded, the second checkout too
C30_Witness ==
    /\ run.pc = "symlink"
    /\ run.log = <<Co(1), Fe(0), Co(0)>>

\* the fetch failed: no second checkout
C30_WitnessFetchFailed ==
    /\ run.pc = "failed"
    /\ run.err = "checkout"
    /\ run.log = <<Co(1), Fe(1)>>

====
